---- MODULE Spec2Model ----
(***************************************************************************)
(* A model of lsst.sims.GalSimInterface.galSimInterpreter: the per-source   *)
(* draw protocol of GalSimInterpreter (dispatch to detectors, Poisson flux  *)
(* realization, lazy creation of detector images, drawing, centroid log)    *)
(* and its checkpoint / restore protocol on one checkpoint file.            *)
(*                                                                          *)
(* Python strings are sequences of one-character strings, so that string    *)
(* concatenation, slicing and formatting are computed and not assumed.      *)
(* Coordinates are integers (arcseconds, pixels).                           *)
(***************************************************************************)
EXTENDS Integers, Sequences, FiniteSets, TLC

\* ------------------------------------------------------------------------
\* Bounds of the model
\* ------------------------------------------------------------------------
\* drawObject calls made over the whole run (all sessions together)
MaxCalls == 2
\* largest value a Poisson deviate of non-zero mean takes in the model
MaxRealized == 1
\* largest natural size (getGoodImageSize(1.0)) of a dispatched test profile
MaxGoodSize == 2

\* ------------------------------------------------------------------------
\* Program constants
\* ------------------------------------------------------------------------
conservative_factor == 10
nobj_checkpoint_default == 1000

\* ------------------------------------------------------------------------
\* Python values
\* ------------------------------------------------------------------------
\* None where a string is expected (outputString, the return value)
NoneStr == <<"<None>">>
\* the empty dict
EmptyDict == [k \in {} |-> 0]

Min(a, b) == IF a < b THEN a ELSE b
Max(a, b) == IF a > b THEN a ELSE b

\* ------------------------------------------------------------------------
\* Detectors (GalSimDetector instances handed to the constructor).  The
\* names follow the LSST convention that restore_checkpoint relies on:
\* name "R:a,b S:c,d", fileName "Rab_Scd".
\* ------------------------------------------------------------------------
DetectorName(a, b, c, d) == <<"R", ":", a, ",", b, " ", "S", ":", c, ",", d>>
DetectorFileName(a, b, c, d) == <<"R", a, b, "_", "S", c, d>>

GalSimDetector(a, b, c, d, x0, x1, y0, y1) ==
    [name |-> DetectorName(a, b, c, d),
     fileName |-> DetectorFileName(a, b, c, d),
     xMinArcsec |-> x0, xMaxArcsec |-> x1,
     yMinArcsec |-> y0, yMaxArcsec |-> y1,
     xMinPix |-> 0, xMaxPix |-> 3, yMinPix |-> 0, yMaxPix |-> 1]

detA == GalSimDetector("0", "0", "0", "0", 0, 20, 0, 20)
detB == GalSimDetector("0", "0", "0", "1", 20, 40, 0, 20)
detC == GalSimDetector("0", "1", "1", "0", 0, 20, 20, 40)

\* the camera of the run: every detector make_galsim_detector can build
CameraDetectors == {detA, detB, detC}

\* bandpassDict, in iteration order
bandpassDict == <<"g", "r">>
BandIndex == 1..Len(bandpassDict)

VARIABLES
    \* ---- the interpreter object (lost when the process dies) ----
    detectors,        \* self.detectors
    PSF,              \* self.PSF
    noiseWrapper,     \* self.noiseWrapper
    rng,              \* self._rng: position in the random stream
    detectorImages,   \* self.detectorImages: key -> image
    blankImageCache,  \* self.blankImageCache: detector name -> image
    checkpoint_file,  \* self.checkpoint_file
    nobj_checkpoint,  \* self.nobj_checkpoint
    drawn_objects,    \* self.drawn_objects
    centroid_base_name, \* self.centroid_base_name
    centroid_list,    \* self.centroid_list
    centroid_handles, \* self.centroid_handles: centroid name -> "open" or "closed"
    \* ---- the call in progress ----
    pc,               \* position of the (single) thread of control
    gsObject,         \* argument of drawObject / findAllDetectors
    outputString,     \* local of drawObject
    detectorList,     \* local of drawObject
    realized_fluxes,  \* local of drawObject
    di, bi,           \* loop positions (detector index, band index)
    wc,               \* write_checkpoint's frame: force, object_list, where it returns to
    \* ---- the file system (survives the process) ----
    ckptFile,         \* the file at checkpoint_file
    tmpFile,          \* the most recent NamedTemporaryFile
    centroidFiles,    \* the centroid files: centroid name -> lines written
    \* ---- the run ----
    cfg,              \* how the caller configures every interpreter of this run
    ncalls,           \* drawObject calls made so far
    hist,             \* history: the state when the call began (pre), the memory at the
                      \* last rename (commit), the drawn_objects this interpreter loaded
                      \* from a checkpoint when it was fresh (restored; <<>> if it did not),
                      \* the keys of this interpreter whose image was replaced by a newly
                      \* created one (replaced), the exception on its way to the caller
                      \* (error)
    \* ---- the stamp sizing functions ----
    stamp,            \* the call of getStampBounds / getGoodPhotImageSize in progress:
                      \* its arguments and what it returns
    \* ---- two sessions side by side ----
    twin,             \* two interpreters constructed alike (a, b), their seed, and the
                      \* sources handed to a so far (b is handed the same, in order)
    \* ---- the loop that calls drawObject for every source of the catalog ----
    driver,           \* the sources in catalog order, the position of the loop, the
                      \* crashes so far, and the realized fluxes of the latest call
                      \* for each source
    \* ---- the pixel arrays behind the images ----
    heap              \* arrays by address, and the address behind each cached blank
                      \* image and each detector image

vars == <<detectors, PSF, noiseWrapper, rng, detectorImages, blankImageCache,
          checkpoint_file, nobj_checkpoint, drawn_objects, centroid_base_name,
          centroid_list, pc, gsObject, outputString, detectorList,
          realized_fluxes, di, bi, wc, ckptFile, tmpFile, cfg, ncalls, hist, stamp, twin,
          centroid_handles, centroidFiles, driver, heap>>

interpVars == <<detectors, PSF, noiseWrapper, checkpoint_file, nobj_checkpoint,
                centroid_base_name>>
diskVars == <<ckptFile, tmpFile>>

\* ------------------------------------------------------------------------
\* Sources (GalSimCelestialObject).  goodSize is the natural size of the
\* centered profile, centeredObj.getGoodImageSize(1.0), in arcsec.
\* ------------------------------------------------------------------------
GalSimCelestialObject(id, type, x, y, size, fg, fr) ==
    [uniqueId |-> id, galSimType |-> type,
     xPupilArcsec |-> x, yPupilArcsec |-> y, goodSize |-> size,
     flux |-> [b \in {"g", "r"} |-> IF b = "g" THEN fg ELSE fr]]

NoObject == [uniqueId |-> 0]

\* the catalog of the run
Catalog ==
    { GalSimCelestialObject(1, "sersic", 10, 10, 1, 1, 1),       \* on detA only
      GalSimCelestialObject(2, "pointSource", 20, 10, 1, 1, 0),  \* straddles detA and detB
      GalSimCelestialObject(3, "sersic", 100, 100, 1, 1, 1),     \* off the focal plane
      GalSimCelestialObject(5, "unknown", 10, 10, 1, 1, 1) }     \* of no known kind

\* uniqueId None
NoneId == 0

\* the sources handed to two sessions run side by side
TwinCatalog ==
    { GalSimCelestialObject(1, "sersic", 10, 10, 1, 1, 1),
      GalSimCelestialObject(2, "pointSource", 20, 10, 1, 1, 0),
      GalSimCelestialObject(4, "RandomWalk", 10, 10, 1, 1, 1),
      GalSimCelestialObject(NoneId, "RandomWalk", 10, 10, 1, 1, 1) }

\* ------------------------------------------------------------------------
\* createCenteredObject and the draw* methods: the profile itself belongs
\* to GalSim; what the interpreter decides is whether the call raises.
\* ------------------------------------------------------------------------
EveryType == {"sersic", "pointSource", "RandomWalk", "FitsImage", "unknown"}
KnownTypes == {"sersic", "pointSource", "RandomWalk", "FitsImage"}

\* drawPointSource: if psf is None: if self.PSF is None: raise; and the test left out
drawPointSourceNeverRaises(psf, selfPSF) == FALSE
drawPointSourceRaises(psf, selfPSF) == psf = "None" /\ selfPSF = "None"

createCenteredObjectRaises(obj, psf, selfPSF) ==
    \/ obj.galSimType = "pointSource" /\ drawPointSourceRaises(psf, selfPSF)
    \/ obj.galSimType \notin KnownTypes

\* the exception raised: the RuntimeError of drawPointSource; in the else
\* branch of createCenteredObject the message is built from "gsobject", a name
\* that is not defined, so that a NameError is raised in place of the RuntimeError
createCenteredObjectError(obj, psf, selfPSF) ==
    IF obj.galSimType \notin KnownTypes THEN "NameError" ELSE "RuntimeError"

\* ------------------------------------------------------------------------
\* findAllDetectors
\* ------------------------------------------------------------------------
\* the conservative bounding box of the source, in pupil arcsec
sizeArcsec(obj, factor) == obj.goodSize * factor
BoxOf(obj, factor) ==
    [xmax |-> obj.xPupilArcsec + sizeArcsec(obj, factor) \div 2,
     xmin |-> obj.xPupilArcsec - sizeArcsec(obj, factor) \div 2,
     ymax |-> obj.yPupilArcsec + sizeArcsec(obj, factor) \div 2,
     ymin |-> obj.yPupilArcsec - sizeArcsec(obj, factor) \div 2]

xOverLapsGE(box, dd) == Min(box.xmax, dd.xMaxArcsec) >= Max(box.xmin, dd.xMinArcsec)
xOverLaps(box, dd) == Min(box.xmax, dd.xMaxArcsec) > Max(box.xmin, dd.xMinArcsec)
yOverLaps(box, dd) == Min(box.ymax, dd.yMaxArcsec) > Max(box.ymin, dd.yMinArcsec)

\* one iteration of "for dd in self.detectors" on the pair (outputString, outputList)
AppendNoSeparator(acc, dd) ==
    [outputString |-> acc.outputString \o dd.name,
     outputList |-> Append(acc.outputList, dd)]
AppendDetector(acc, dd) ==
    [outputString |-> (IF acc.outputString # <<>>
                       THEN acc.outputString \o <<"/", "/">>
                       ELSE acc.outputString) \o dd.name,
     outputList |-> Append(acc.outputList, dd)]

\* the loop with a break after the first detector found
RECURSIVE DetectorLoopFirstOnly(_, _, _, _)
DetectorLoopFirstOnly(dets, k, box, acc) ==
    IF k > Len(dets) THEN acc
    ELSE IF xOverLaps(box, dets[k]) /\ yOverLaps(box, dets[k])
         THEN AppendDetector(acc, dets[k])
         ELSE DetectorLoopFirstOnly(dets, k + 1, box, acc)

\* for dd in self.detectors: append dd when the box overlaps it on both axes
RECURSIVE DetectorLoop(_, _, _, _)
DetectorLoop(dets, k, box, acc) ==
    IF k > Len(dets) THEN acc
    ELSE DetectorLoop(dets, k + 1, box,
                      IF xOverLaps(box, dets[k]) /\ yOverLaps(box, dets[k])
                      THEN AppendDetector(acc, dets[k])
                      ELSE acc)

\* (outputString, outputList) of findAllDetectors; centeredObj is GalSim's
findAllDetectors(dets, obj, factor) ==
    LET acc == DetectorLoop(dets, 1, BoxOf(obj, factor),
                            [outputString |-> <<>>, outputList |-> <<>>])
    IN [outputString |-> IF acc.outputString = <<>> THEN NoneStr ELSE acc.outputString,
        outputList |-> acc.outputList]

\* ------------------------------------------------------------------------
\* Images.  An image carries the detector it was built for (bounds, wcs)
\* and its pixel data; the pixel data is kept as what was added to it: the
\* number of background injections, the flux drawn from each source, and the
\* flux drawn with each realisation of a random-walk profile (walk: the sum of
\* flux times realisation number; 0 for the other profile kinds).
\* ------------------------------------------------------------------------
SourceIds == {o.uniqueId : o \in Catalog \cup TwinCatalog} \cup {6, 7}

NewImage(detector) ==
    [wcs |-> detector.name,
     nx |-> detector.xMaxPix - detector.xMinPix + 1,
     ny |-> detector.yMaxPix - detector.yMinPix + 1,
     bg |-> 0,
     cnt |-> [i \in SourceIds |-> 0],
     walk |-> 0]

\* blankImage: the image returned (a copy) and the cache afterwards
blankImage(cache, detector) ==
    IF detector.name \in DOMAIN cache THEN cache[detector.name] ELSE NewImage(detector)
blankImageCacheAfter(cache, detector) ==
    IF detector.name \in DOMAIN cache THEN cache
    ELSE cache @@ (detector.name :> NewImage(detector))

getFileName(detector, bandpassName) ==
    detector.fileName \o <<"_", bandpassName, ".", "f", "i", "t", "s">>

\* noiseWrapper.addNoiseAndBackground(image, ...)
addNoiseAndBackground(image) == [image EXCEPT !.bg = @ + 1]

\* obj.drawImage(..., image=image, add_to_image=True) for a source of the given flux
drawImage(image, uniqueId, flux) == [image EXCEPT !.cnt[uniqueId] = @ + flux]

\* image.array
ArrayOf(image) ==
    [nx |-> image.nx, ny |-> image.ny, bg |-> image.bg, cnt |-> image.cnt, walk |-> image.walk]

\* image += array
AddArray(image, array) ==
    IF image.nx = array.nx /\ image.ny = array.ny
    THEN [image EXCEPT !.bg = @ + array.bg,
                       !.cnt = [i \in SourceIds |-> @[i] + array.cnt[i]],
                       !.walk = @ + array.walk]
    ELSE [image EXCEPT !.wcs = <<"ValueError">>]

\* camera_wrapper.pixelCoordsFromPupilCoords(...) for one detector
pixelCoordsFromPupilCoords(obj, detector) ==
    <<detector.xMinPix + (obj.xPupilArcsec - detector.xMinArcsec),
      detector.yMinPix + (obj.yPupilArcsec - detector.yMinArcsec)>>

\* ------------------------------------------------------------------------
\* Files
\* ------------------------------------------------------------------------
AbsentFile == [exists |-> FALSE]
\* a temporary file left behind by a process that died: nothing reads it again
OrphanFile == [exists |-> TRUE, orphan |-> TRUE]
\* written: "none" (just created), "part" (a prefix of the pickle), "all"
File(data, written, synced, mode) ==
    [exists |-> TRUE, data |-> data, written |-> written, synced |-> synced, mode |-> mode]

\* the dict pickled by write_checkpoint
ImageState(images, r, drawn, centroids) ==
    [images |-> [key \in DOMAIN images |-> ArrayOf(images[key])],
     rng |-> r,
     drawn_objects |-> drawn,
     centroid_objects |-> centroids]

\* drawn_objects = self.drawn_objects if object_list is None else object_list
CheckpointDrawnObjects(drawn, object_list) ==
    IF object_list = <<>> THEN drawn ELSE object_list[1]

\* the guard of write_checkpoint, after the checkpoint_file test
CheckpointDueAlways(force, drawn, nobj) == TRUE
CheckpointDue(force, drawn, nobj) == force \/ Cardinality(drawn) % nobj = 0

\* restore_checkpoint: "R:{},{} S:{},{}".format(*tuple(key[1:3] + key[5:7]))
Unmangle(key) == <<"R", ":", key[2], ",", key[3], " ", "S", ":", key[6], ",", key[7]>>

\* make_galsim_detector(camera_wrapper, detname, ...)
make_galsim_detector(detname) == CHOOSE d \in CameraDetectors : d.name = detname

\* the loop of restore_checkpoint over the persisted images
RECURSIVE RestoreImages(_, _, _, _)
RestoreImages(imgs, cache, persisted, keys) ==
    IF keys = {} THEN [detectorImages |-> imgs, blankImageCache |-> cache]
    ELSE LET key == CHOOSE k \in keys : TRUE
             detector == make_galsim_detector(Unmangle(key))
             image == AddArray(blankImage(cache, detector), persisted[key])
         IN RestoreImages([k \in DOMAIN imgs \cup {key} |-> IF k = key THEN image ELSE imgs[k]],
                          blankImageCacheAfter(cache, detector),
                          persisted, keys \ {key})

\* ------------------------------------------------------------------------
\* The run's configuration: what the caller sets on every interpreter it
\* constructs (setPSF, checkpoint_file, nobj_checkpoint, centroid_base_name,
\* the noiseWrapper argument).
\* ------------------------------------------------------------------------
CheckpointEvery == 2

Configs ==
    [checkpoint_file : {"ckpt.pkl"},
     nobj_checkpoint : {CheckpointEvery},
     noiseWrapper : {"None", "noise"},
     centroid_base_name : {"None", "centroid"},
     PSF : {"None", "psf"}]
    \cup
    [checkpoint_file : {"None"},
     nobj_checkpoint : {nobj_checkpoint_default},
     noiseWrapper : {"None", "noise"},
     centroid_base_name : {"None", "centroid"},
     PSF : {"psf"}]

\* no call of the stamp sizing functions in progress
NoStamp == [op |-> "none"]
\* no second session
NoTwin == [seed |-> 0]
\* no loop over a catalog
NoDriver == [pos |-> 0]
\* no arrays followed
NoHeap == [next |-> 0]

NoFrame == [force |-> FALSE, object_list |-> <<>>, ret |-> "idle"]
\* an interpreter on which nothing has been called yet
IsFresh ==
    /\ detectorImages = EmptyDict
    /\ blankImageCache = EmptyDict
    /\ drawn_objects = {}
    /\ centroid_list = <<>>
    /\ rng = 0

NoSnapshot == [taken |-> FALSE]
\* the interpreter's memory, as compared by the checks
MemorySnapshot ==
    [taken |-> TRUE, images |-> detectorImages, drawn_objects |-> drawn_objects,
     centroid_list |-> centroid_list, rng |-> rng]
\* the state in which a call begins
CallSnapshot ==
    [taken |-> TRUE, images |-> detectorImages, drawn_objects |-> drawn_objects,
     centroid_list |-> centroid_list, rng |-> rng, cache |-> blankImageCache,
     ckptFile |-> ckptFile, tmpFile |-> tmpFile, fresh |-> IsFresh]

\* __init__ followed by the caller's configuration
Constructed(c, dets) ==
    /\ detectors = dets
    /\ PSF = c.PSF
    /\ noiseWrapper = c.noiseWrapper
    /\ rng = 0
    /\ detectorImages = EmptyDict
    /\ blankImageCache = EmptyDict
    /\ checkpoint_file = c.checkpoint_file
    /\ nobj_checkpoint = c.nobj_checkpoint
    /\ drawn_objects = {}
    /\ centroid_base_name = c.centroid_base_name
    /\ centroid_list = <<>>

NoCall ==
    /\ pc = "idle"
    /\ gsObject = NoObject
    /\ outputString = NoneStr
    /\ detectorList = <<>>
    /\ realized_fluxes = <<>>
    /\ di = 0
    /\ bi = 0
    /\ wc = NoFrame

Init ==
    /\ cfg \in Configs
    /\ Constructed(cfg, <<detA, detB>>)
    /\ NoCall
    /\ ckptFile = AbsentFile
    /\ tmpFile = AbsentFile
    /\ ncalls = 0
    /\ hist = [pre |-> NoSnapshot, commit |-> NoSnapshot, restored |-> <<>>,
               replaced |-> {}, error |-> "none"]
    /\ stamp = NoStamp
    /\ centroid_handles = EmptyDict
    /\ centroidFiles = EmptyDict
    /\ driver = NoDriver
    /\ heap = NoHeap
    /\ twin = NoTwin

callVars == <<gsObject, outputString, detectorList, realized_fluxes, di, bi>>
memVars == <<rng, detectorImages, blankImageCache, drawn_objects, centroid_list>>

EndCallLocals ==
    /\ pc' = "idle"
    /\ gsObject' = NoObject
    /\ outputString' = NoneStr
    /\ detectorList' = <<>>
    /\ realized_fluxes' = <<>>
    /\ di' = 0
    /\ bi' = 0
    /\ wc' = NoFrame

EndCall ==
    /\ EndCallLocals
    /\ hist' = [hist EXCEPT !.pre = NoSnapshot, !.error = "none"]

\* ------------------------------------------------------------------------
\* drawObject (GalSimInterpreter)
\* ------------------------------------------------------------------------
\* the call begins and findAllDetectors returns
drawObject_findAllDetectors(obj) ==
    /\ pc = "idle"
    /\ ncalls < MaxCalls
    /\ ~createCenteredObjectRaises(obj, "None", PSF)
    /\ LET found == findAllDetectors(detectors, obj, conservative_factor)
       IN /\ outputString' = found.outputString
          /\ detectorList' = found.outputList
    /\ gsObject' = obj
    /\ pc' = "markDrawn"
    /\ ncalls' = ncalls + 1
    /\ hist' = [hist EXCEPT !.pre = CallSnapshot]
    /\ UNCHANGED <<driver, heap, centroid_handles, centroidFiles, interpVars, stamp, twin, memVars, diskVars, cfg, realized_fluxes, di, bi, wc>>

\* createCenteredObject raises inside findAllDetectors
drawObject_raise(obj) ==
    /\ pc = "idle"
    /\ ncalls < MaxCalls
    /\ createCenteredObjectRaises(obj, "None", PSF)
    /\ gsObject' = obj
    /\ pc' = "raised"
    /\ ncalls' = ncalls + 1
    /\ hist' = [hist EXCEPT !.pre = CallSnapshot,
                            !.error = createCenteredObjectError(obj, "None", PSF)]
    /\ UNCHANGED <<driver, heap, centroid_handles, centroidFiles, interpVars, stamp, twin, memVars, diskVars, cfg, outputString, detectorList,
                   realized_fluxes, di, bi, wc>>

\* the exception reaches the caller
drawObject_propagate ==
    /\ pc = "raised"
    /\ EndCall
    /\ UNCHANGED <<driver, heap, centroid_handles, centroidFiles, interpVars, stamp, twin, memVars, diskVars, cfg, ncalls>>

\* self.drawn_objects.add(gsObject.uniqueId)
AddDrawnReplacing(drawn, uniqueId) == {uniqueId}
AddDrawnNothing(drawn, uniqueId) == drawn
AddDrawn(drawn, uniqueId) == drawn \cup {uniqueId}

\* the id added to drawn_objects in the step that realizes the fluxes
drawObject_markDrawnWhileRealizing ==
    /\ pc = "markDrawn"
    /\ drawn_objects' = AddDrawn(drawn_objects, gsObject.uniqueId)
    /\ \E rf \in [BandIndex -> 0..MaxRealized] :
          /\ \A b \in BandIndex : rf[b] \in 0..(IF gsObject.flux[bandpassDict[b]] = 0
                                                THEN 0 ELSE MaxRealized)
          /\ realized_fluxes' = rf
    /\ rng' = rng + Len(bandpassDict)
    /\ pc' = "check"
    /\ UNCHANGED <<driver, heap, centroid_handles, centroidFiles, interpVars, stamp, twin, detectorImages, blankImageCache, centroid_list,
                   gsObject, outputString, detectorList, di, bi, wc, diskVars, cfg,
                   ncalls, hist>>

drawObject_markDrawn ==
    /\ pc = "markDrawn"
    /\ drawn_objects' = AddDrawn(drawn_objects, gsObject.uniqueId)
    /\ pc' = "realize"
    /\ UNCHANGED <<driver, heap, centroid_handles, centroidFiles, interpVars, stamp, twin, rng, detectorImages, blankImageCache, centroid_list,
                   callVars, wc, diskVars, cfg, ncalls, hist>>

\* the values galsim.PoissonDeviate(self._rng, mean=f)() can return
PoissonValues(mean) == IF mean = 0 THEN {0} ELSE 0..MaxRealized

drawObject_realize ==
    /\ pc = "realize"
    /\ \E rf \in [BandIndex -> 0..MaxRealized] :
          /\ \A b \in BandIndex : rf[b] \in PoissonValues(gsObject.flux[bandpassDict[b]])
          /\ realized_fluxes' = rf
    /\ rng' = rng + Len(bandpassDict)
    /\ pc' = "check"
    /\ UNCHANGED <<driver, heap, centroid_handles, centroidFiles, interpVars, stamp, twin, detectorImages, blankImageCache, drawn_objects, centroid_list,
                   gsObject, outputString, detectorList, di, bi, wc, diskVars, cfg,
                   ncalls, hist>>

AllZero(rf) == \A b \in DOMAIN rf : rf[b] = 0

\* the all-zero test left out: the call goes on to open the targets
drawObject_zeroFluxIgnored ==
    /\ pc = "check"
    /\ AllZero(realized_fluxes)
    /\ pc' = IF Len(detectorList) = 0 THEN "return" ELSE "anb"
    /\ di' = 1
    /\ bi' = 1
    /\ UNCHANGED <<driver, heap, centroid_handles, centroidFiles, interpVars, stamp, twin, memVars, gsObject, outputString, detectorList,
                   realized_fluxes, wc, diskVars, cfg, ncalls, hist>>

\* if all([f == 0 for f in realized_fluxes]): return outputString
drawObject_zeroFlux ==
    /\ pc = "check"
    /\ AllZero(realized_fluxes)
    /\ pc' = "return"
    /\ UNCHANGED <<driver, heap, centroid_handles, centroidFiles, interpVars, stamp, twin, memVars, callVars, wc, diskVars, cfg, ncalls, hist>>

\* if len(detectorList) == 0: return outputString
drawObject_noDetector ==
    /\ pc = "check"
    /\ ~AllZero(realized_fluxes)
    /\ Len(detectorList) = 0
    /\ pc' = "return"
    /\ UNCHANGED <<driver, heap, centroid_handles, centroidFiles, interpVars, stamp, twin, memVars, callVars, wc, diskVars, cfg, ncalls, hist>>

\* self._addNoiseAndBackground(detectorList) is entered
drawObject_addNoiseAndBackground ==
    /\ pc = "check"
    /\ ~AllZero(realized_fluxes)
    /\ Len(detectorList) > 0
    /\ pc' = "anb"
    /\ di' = 1
    /\ bi' = 1
    /\ UNCHANGED <<driver, heap, centroid_handles, centroidFiles, interpVars, stamp, twin, memVars, gsObject, outputString, detectorList,
                   realized_fluxes, wc, diskVars, cfg, ncalls, hist>>

\* ------------------------------------------------------------------------
\* _addNoiseAndBackground: for detector in detectorList: for bandpassName in bandpassDict
\* ------------------------------------------------------------------------
anbKey == getFileName(detectorList[di], bandpassDict[bi])
anbAdvance ==
    IF bi < Len(bandpassDict)
    THEN di' = di /\ bi' = bi + 1
    ELSE di' = di + 1 /\ bi' = 1

\* name already in self.detectorImages, and a blank image stored under it all the same
addNoiseAndBackground_existingRecreated ==
    /\ pc = "anb"
    /\ di <= Len(detectorList)
    /\ anbKey \in DOMAIN detectorImages
    /\ detectorImages' = [detectorImages EXCEPT ![anbKey] =
                             [blankImage(blankImageCache, detectorList[di])
                                 EXCEPT !.bg = detectorImages[anbKey].bg]]
    /\ anbAdvance
    /\ UNCHANGED <<driver, heap, centroid_handles, centroidFiles, interpVars, stamp, twin, rng, blankImageCache, drawn_objects, centroid_list, pc,
                   gsObject, outputString, detectorList, realized_fluxes, wc, diskVars, cfg,
                   ncalls, hist>>

\* name already in self.detectorImages, and the background added to it again
addNoiseAndBackground_existingAgain ==
    /\ pc = "anb"
    /\ di <= Len(detectorList)
    /\ anbKey \in DOMAIN detectorImages
    /\ detectorImages' = [detectorImages EXCEPT ![anbKey] =
                             IF noiseWrapper # "None" THEN addNoiseAndBackground(@) ELSE @]
    /\ anbAdvance
    /\ UNCHANGED <<driver, heap, centroid_handles, centroidFiles, interpVars, stamp, twin, rng, blankImageCache, drawn_objects, centroid_list, pc,
                   gsObject, outputString, detectorList, realized_fluxes, wc, diskVars, cfg,
                   ncalls, hist>>

\* name already in self.detectorImages
addNoiseAndBackground_existing ==
    /\ pc = "anb"
    /\ di <= Len(detectorList)
    /\ anbKey \in DOMAIN detectorImages
    /\ anbAdvance
    /\ UNCHANGED <<driver, heap, centroid_handles, centroidFiles, interpVars, stamp, twin, memVars, pc, gsObject, outputString, detectorList,
                   realized_fluxes, wc, diskVars, cfg, ncalls, hist>>

\* a new image, no noiseWrapper
addNoiseAndBackground_blank ==
    /\ pc = "anb"
    /\ di <= Len(detectorList)
    /\ anbKey \notin DOMAIN detectorImages
    /\ noiseWrapper = "None"
    /\ detectorImages' = detectorImages @@ (anbKey :> blankImage(blankImageCache, detectorList[di]))
    /\ blankImageCache' = blankImageCacheAfter(blankImageCache, detectorList[di])
    /\ anbAdvance
    /\ UNCHANGED <<driver, heap, centroid_handles, centroidFiles, interpVars, stamp, twin, rng, drawn_objects, centroid_list, pc, gsObject, outputString,
                   detectorList, realized_fluxes, wc, diskVars, cfg, ncalls, hist>>

\* a new image, sky background and noise added, and no checkpoint written
addNoiseAndBackground_noiseNoCheckpoint ==
    /\ pc = "anb"
    /\ di <= Len(detectorList)
    /\ anbKey \notin DOMAIN detectorImages
    /\ noiseWrapper # "None"
    /\ detectorImages' = detectorImages @@
          (anbKey :> addNoiseAndBackground(blankImage(blankImageCache, detectorList[di])))
    /\ blankImageCache' = blankImageCacheAfter(blankImageCache, detectorList[di])
    /\ anbAdvance
    /\ UNCHANGED <<driver, heap, centroid_handles, centroidFiles, interpVars, stamp, twin, rng, drawn_objects, centroid_list, pc, gsObject,
                   outputString, detectorList, realized_fluxes, wc, diskVars, cfg, ncalls, hist>>

\* a new image, sky background and noise added; write_checkpoint(force=True, object_list=set())
addNoiseAndBackground_noise ==
    /\ pc = "anb"
    /\ di <= Len(detectorList)
    /\ anbKey \notin DOMAIN detectorImages
    /\ noiseWrapper # "None"
    /\ detectorImages' = detectorImages @@
          (anbKey :> addNoiseAndBackground(blankImage(blankImageCache, detectorList[di])))
    /\ blankImageCache' = blankImageCacheAfter(blankImageCache, detectorList[di])
    /\ anbAdvance
    /\ wc' = [force |-> TRUE, object_list |-> <<{}>>, ret |-> "anb"]
    /\ pc' = "wc"
    /\ UNCHANGED <<driver, heap, centroid_handles, centroidFiles, interpVars, stamp, twin, rng, drawn_objects, centroid_list, gsObject, outputString,
                   detectorList, realized_fluxes, diskVars, cfg, ncalls, hist>>

\* the loops are over: on to the draw loops
addNoiseAndBackground_return ==
    /\ pc = "anb"
    /\ di > Len(detectorList)
    /\ pc' = "draw"
    /\ bi' = 1
    /\ di' = 1
    /\ UNCHANGED <<driver, heap, centroid_handles, centroidFiles, interpVars, stamp, twin, memVars, gsObject, outputString, detectorList,
                   realized_fluxes, wc, diskVars, cfg, ncalls, hist>>

\* ------------------------------------------------------------------------
\* the draw loops: for bandpassName, realized_flux: for detector in detectorList
\* ------------------------------------------------------------------------
drawKey == getFileName(detectorList[di], bandpassDict[bi])

centroid_tuple(detector, bandpassName, obj) ==
    <<detector.fileName, bandpassName, obj.uniqueId, obj.flux[bandpassName],
      pixelCoordsFromPupilCoords(obj, detector)[1],
      pixelCoordsFromPupilCoords(obj, detector)[2]>>

drawObject_draw ==
    /\ pc = "draw"
    /\ bi <= Len(bandpassDict)
    /\ detectorImages' = [detectorImages EXCEPT
          ![drawKey] = drawImage(@, gsObject.uniqueId, realized_fluxes[bi])]
    /\ rng' = rng + 1
    /\ centroid_list' =
          IF centroid_base_name # "None"
          THEN Append(centroid_list, centroid_tuple(detectorList[di], bandpassDict[bi], gsObject))
          ELSE centroid_list
    /\ IF di < Len(detectorList)
       THEN bi' = bi /\ di' = di + 1
       ELSE bi' = bi + 1 /\ di' = 1
    /\ UNCHANGED <<driver, heap, centroid_handles, centroidFiles, interpVars, stamp, twin, blankImageCache, drawn_objects, pc, gsObject, outputString,
                   detectorList, realized_fluxes, wc, diskVars, cfg, ncalls, hist>>

\* self.write_checkpoint() at the end of drawObject
drawObject_write_checkpoint ==
    /\ pc = "draw"
    /\ bi > Len(bandpassDict)
    /\ wc' = [force |-> FALSE, object_list |-> <<>>, ret |-> "return"]
    /\ pc' = "wc"
    /\ UNCHANGED <<driver, heap, centroid_handles, centroidFiles, interpVars, stamp, twin, memVars, callVars, diskVars, cfg, ncalls, hist>>

\* return outputString
drawObject_return ==
    /\ pc = "return"
    /\ EndCall
    /\ UNCHANGED <<driver, heap, centroid_handles, centroidFiles, interpVars, stamp, twin, memVars, diskVars, cfg, ncalls>>

\* ------------------------------------------------------------------------
\* write_checkpoint(force, object_list)
\* ------------------------------------------------------------------------
\* a direct call by the driver of the run
write_checkpoint_call(force) ==
    /\ pc = "idle"
    /\ wc' = [force |-> force, object_list |-> <<>>, ret |-> "idle"]
    /\ pc' = "wc"
    /\ UNCHANGED <<driver, heap, centroid_handles, centroidFiles, interpVars, stamp, twin, memVars, callVars, diskVars, cfg, ncalls, hist>>

\* if self.checkpoint_file is None: return
write_checkpoint_noFile ==
    /\ pc = "wc"
    /\ checkpoint_file = "None"
    /\ pc' = wc.ret
    /\ wc' = NoFrame
    /\ UNCHANGED <<driver, heap, centroid_handles, centroidFiles, interpVars, stamp, twin, memVars, callVars, diskVars, cfg, ncalls, hist>>

\* neither forced nor on the cadence: nothing is written
write_checkpoint_notDue ==
    /\ pc = "wc"
    /\ checkpoint_file # "None"
    /\ ~CheckpointDue(wc.force, drawn_objects, nobj_checkpoint)
    /\ pc' = wc.ret
    /\ wc' = NoFrame
    /\ UNCHANGED <<driver, heap, centroid_handles, centroidFiles, interpVars, stamp, twin, memVars, callVars, diskVars, cfg, ncalls, hist>>

\* image_state is built and tempfile.NamedTemporaryFile(mode='wb', delete=False) opened
write_checkpoint_open ==
    /\ pc = "wc"
    /\ checkpoint_file # "None"
    /\ CheckpointDue(wc.force, drawn_objects, nobj_checkpoint)
    /\ tmpFile' = File(ImageState(detectorImages, rng,
                                  CheckpointDrawnObjects(drawn_objects, wc.object_list),
                                  centroid_list),
                       "none", FALSE, "0600")
    /\ pc' = "wc_dump"
    /\ UNCHANGED <<driver, heap, centroid_handles, centroidFiles, interpVars, stamp, twin, memVars, callVars, wc, ckptFile, cfg, ncalls, hist>>

\* pickle.dump(image_state, tmp): the first bytes reach the file
write_checkpoint_dumpInPlace ==
    /\ pc = "wc_dump"
    /\ ckptFile' = [tmpFile EXCEPT !.written = "part"]
    /\ tmpFile' = [tmpFile EXCEPT !.written = "part"]
    /\ pc' = "wc_dump_rest"
    /\ UNCHANGED <<driver, heap, centroid_handles, centroidFiles, interpVars, stamp, twin, memVars, callVars, wc, cfg, ncalls, hist>>
write_checkpoint_dump ==
    /\ pc = "wc_dump"
    /\ tmpFile' = [tmpFile EXCEPT !.written = "part"]
    /\ pc' = "wc_dump_rest"
    /\ UNCHANGED <<driver, heap, centroid_handles, centroidFiles, interpVars, stamp, twin, memVars, callVars, wc, ckptFile, cfg, ncalls, hist>>

\* pickle.dump: the rest of the record
write_checkpoint_dump_rest ==
    /\ pc = "wc_dump_rest"
    /\ tmpFile' = [tmpFile EXCEPT !.written = "all"]
    /\ pc' = "wc_fsync"
    /\ UNCHANGED <<driver, heap, centroid_handles, centroidFiles, interpVars, stamp, twin, memVars, callVars, wc, ckptFile, cfg, ncalls, hist>>

\* tmp.flush(); os.fsync(tmp.fileno())
write_checkpoint_fsync ==
    /\ pc = "wc_fsync"
    /\ tmpFile' = [tmpFile EXCEPT !.synced = TRUE]
    /\ pc' = "wc_chmod"
    /\ UNCHANGED <<driver, heap, centroid_handles, centroidFiles, interpVars, stamp, twin, memVars, callVars, wc, ckptFile, cfg, ncalls, hist>>

\* os.chmod(tmp.name, 0o660)
write_checkpoint_chmod ==
    /\ pc = "wc_chmod"
    /\ tmpFile' = [tmpFile EXCEPT !.mode = "0660"]
    /\ pc' = "wc_rename"
    /\ UNCHANGED <<driver, heap, centroid_handles, centroidFiles, interpVars, stamp, twin, memVars, callVars, wc, ckptFile, cfg, ncalls, hist>>

\* os.rename(tmp.name, self.checkpoint_file)
write_checkpoint_rename ==
    /\ pc = "wc_rename"
    /\ ckptFile' = tmpFile
    /\ tmpFile' = AbsentFile
    /\ hist' = [hist EXCEPT !.commit = MemorySnapshot]
    /\ pc' = wc.ret
    /\ wc' = NoFrame
    /\ UNCHANGED <<driver, heap, centroid_handles, centroidFiles, interpVars, stamp, twin, memVars, callVars, cfg, ncalls>>

\* ------------------------------------------------------------------------
\* restore_checkpoint
\* ------------------------------------------------------------------------
\* the same with the interpreter's drawn_objects and centroid_list emptied on return
restore_checkpoint_noFileReset ==
    /\ pc = "idle"
    /\ checkpoint_file = "None" \/ ~ckptFile.exists
    /\ pc' = "restored"
    /\ drawn_objects' = {}
    /\ centroid_list' = <<>>
    /\ hist' = [hist EXCEPT !.pre = CallSnapshot]
    /\ UNCHANGED <<driver, heap, centroid_handles, centroidFiles, interpVars, stamp, twin, rng, detectorImages, blankImageCache, callVars, wc,
                   diskVars, cfg, ncalls>>

\* self.checkpoint_file is None or not os.path.isfile(self.checkpoint_file)
restore_checkpoint_noFile ==
    /\ pc = "idle"
    /\ checkpoint_file = "None" \/ ~ckptFile.exists
    /\ pc' = "restored"
    /\ hist' = [hist EXCEPT !.pre = CallSnapshot]
    /\ UNCHANGED <<driver, heap, centroid_handles, centroidFiles, interpVars, stamp, twin, memVars, callVars, wc, diskVars, cfg, ncalls>>

\* the record is loaded; pickle.load raises on a truncated file
restore_checkpoint_load ==
    /\ pc = "idle"
    /\ checkpoint_file # "None"
    /\ ckptFile.exists
    /\ hist' = [hist EXCEPT !.pre = CallSnapshot,
                            !.restored = IF ckptFile.written = "all" /\ IsFresh
                                         THEN <<ckptFile.data.drawn_objects>> ELSE @,
                            !.replaced = IF ckptFile.written = "all"
                                         THEN @ \cup (DOMAIN ckptFile.data.images
                                                        \cap DOMAIN detectorImages)
                                         ELSE @,
                            !.error = IF ckptFile.written = "all" THEN @
                                      ELSE "UnpicklingError"]
    /\ IF ckptFile.written = "all"
       THEN LET image_state == ckptFile.data
                restored == RestoreImages(detectorImages, blankImageCache,
                                          image_state.images, DOMAIN image_state.images)
            IN /\ detectorImages' = restored.detectorImages
               /\ blankImageCache' = restored.blankImageCache
               /\ rng' = image_state.rng
               /\ drawn_objects' = image_state.drawn_objects
               /\ centroid_list' = image_state.centroid_objects
               /\ pc' = "restored"
       ELSE /\ pc' = "raised"
            /\ UNCHANGED memVars
    /\ UNCHANGED <<driver, heap, centroid_handles, centroidFiles, interpVars, stamp, twin, callVars, wc, diskVars, cfg, ncalls>>

restore_checkpoint_return ==
    /\ pc = "restored"
    /\ EndCall
    /\ UNCHANGED <<driver, heap, centroid_handles, centroidFiles, interpVars, stamp, twin, memVars, diskVars, cfg, ncalls>>

\* ------------------------------------------------------------------------
\* The process dies (at any point) and the run is started again: a new
\* interpreter is constructed and configured; the files stay as they are.
\* ------------------------------------------------------------------------
Crash ==
    /\ ~(pc = "idle" /\ IsFresh)
    /\ rng' = 0
    /\ detectorImages' = EmptyDict
    /\ blankImageCache' = EmptyDict
    /\ drawn_objects' = {}
    /\ centroid_list' = <<>>
    /\ EndCallLocals
    /\ hist' = [hist EXCEPT !.pre = NoSnapshot, !.restored = <<>>, !.replaced = {},
                            !.error = "none"]
    /\ tmpFile' = IF tmpFile.exists THEN OrphanFile ELSE tmpFile
    /\ centroid_handles' = EmptyDict
    /\ UNCHANGED <<driver, heap, centroidFiles, interpVars, stamp, twin, ckptFile, cfg, ncalls>>

Next ==
    \/ \E obj \in Catalog : drawObject_findAllDetectors(obj)
    \/ \E obj \in Catalog : drawObject_raise(obj)
    \/ drawObject_propagate
    \/ drawObject_markDrawn
    \/ drawObject_realize
    \/ drawObject_zeroFlux
    \/ drawObject_noDetector
    \/ drawObject_addNoiseAndBackground
    \/ addNoiseAndBackground_existing
    \/ addNoiseAndBackground_blank
    \/ addNoiseAndBackground_noise
    \/ addNoiseAndBackground_return
    \/ drawObject_draw
    \/ drawObject_write_checkpoint
    \/ drawObject_return
    \/ \E force \in BOOLEAN : write_checkpoint_call(force)
    \/ write_checkpoint_noFile
    \/ write_checkpoint_notDue
    \/ write_checkpoint_open
    \/ write_checkpoint_dump
    \/ write_checkpoint_dump_rest
    \/ write_checkpoint_fsync
    \/ write_checkpoint_chmod
    \/ write_checkpoint_rename
    \/ restore_checkpoint_noFile
    \/ restore_checkpoint_load
    \/ restore_checkpoint_return
    \/ Crash

Spec == Init /\ [][Next]_vars

\* ------------------------------------------------------------------------
\* findAllDetectors on its own: any order of the camera's detectors in
\* self.detectors, sources on a grid around the detector edges.
\* ------------------------------------------------------------------------
DetectorOrders ==
    {s \in [1..Cardinality(CameraDetectors) -> CameraDetectors] :
        \A i, j \in DOMAIN s : s[i] = s[j] => i = j}

GridCoordinates == {-10, 5, 10, 20, 30, 50}
GridObjects ==
    {GalSimCelestialObject(1, "sersic", x, y, size, 1, 1) :
        x \in GridCoordinates, y \in GridCoordinates, size \in 0..MaxGoodSize}

DispatchConfig ==
    [checkpoint_file |-> "None", nobj_checkpoint |-> nobj_checkpoint_default,
     noiseWrapper |-> "None", centroid_base_name |-> "None", PSF |-> "psf"]

InitDispatch ==
    /\ cfg = DispatchConfig
    /\ \E order \in DetectorOrders : Constructed(cfg, order)
    /\ NoCall
    /\ ckptFile = AbsentFile
    /\ tmpFile = AbsentFile
    /\ ncalls = 0
    /\ hist = [pre |-> NoSnapshot, commit |-> NoSnapshot, restored |-> <<>>,
               replaced |-> {}, error |-> "none"]
    /\ stamp = NoStamp
    /\ centroid_handles = EmptyDict
    /\ centroidFiles = EmptyDict
    /\ driver = NoDriver
    /\ heap = NoHeap
    /\ twin = NoTwin

findAllDetectors_call(obj) ==
    /\ pc = "idle"
    /\ ~createCenteredObjectRaises(obj, "None", PSF)
    /\ LET found == findAllDetectors(detectors, obj, conservative_factor)
       IN /\ outputString' = found.outputString
          /\ detectorList' = found.outputList
    /\ gsObject' = obj
    /\ pc' = "found"
    /\ UNCHANGED <<driver, heap, centroid_handles, centroidFiles, interpVars, stamp, twin, memVars, diskVars, cfg, realized_fluxes, di, bi, wc,
                   ncalls, hist>>

findAllDetectors_return ==
    /\ pc = "found"
    /\ EndCall
    /\ UNCHANGED <<driver, heap, centroid_handles, centroidFiles, interpVars, stamp, twin, memVars, diskVars, cfg, ncalls>>

NextDispatch ==
    \/ \E obj \in GridObjects : findAllDetectors_call(obj)
    \/ findAllDetectors_return

SpecDispatch == InitDispatch /\ [][NextDispatch]_vars

\* ------------------------------------------------------------------------
\* getGoodPhotImageSize and GalSimSiliconInterpeter.getStampBounds
\*
\* N of getGoodPhotImageSize starts as an integer and is only multiplied and
\* divided by factor = 1.1 and cut at 4096, so it is kept exactly, as
\* b * (11/10)^e; comparisons and int() are computed on integers.
\* ------------------------------------------------------------------------
\* upper end of the surface-brightness values of the test profiles' wings
MaxSb == 3
\* upper end of the keep_sb_level values
MaxKeep == 2

faint_flux == 10
faint_image_size == 32
Nmax_default == 1400
Nmax_phot == 4096
Nmin_phot == 64

RECURSIVE Pow(_, _)
Pow(b, n) == IF n = 0 THEN 1 ELSE b * Pow(b, n - 1)

Sz(b, e) == [b |-> b, e |-> e]
\* N < c for an integer c
SzLT(N, c) ==
    IF N.e >= 0 THEN N.b * Pow(11, N.e) < c * Pow(10, N.e)
    ELSE N.b * Pow(10, 0 - N.e) < c * Pow(11, 0 - N.e)
\* int(N)
SzInt(N) ==
    IF N.e >= 0 THEN (N.b * Pow(11, N.e)) \div Pow(10, N.e)
    ELSE (N.b * Pow(10, 0 - N.e)) \div Pow(11, 0 - N.e)
\* N * factor, N / factor
SzTimesFactor(N) == Sz(N.b, N.e + 1)
SzOverFactor(N) == Sz(N.b, N.e - 1)
\* min(N, c)
SzMin(N, c) == IF SzLT(N, c) THEN N ELSE Sz(c, 0)

\* A centered profile (galsim.GSObject): what getGoodImageSize(pixel_scale)
\* returns for it, and its surface brightness.  The test profiles have square
\* isophotes: the brightness at (x, y) is that of the step <<side, sb>> in
\* which the square of half-side max(|x|, |y|) lies (side in pixels at
\* pixel_scale), and 0 outside the last step.
CoreSb == 3 * MaxKeep + 3
StepProfile(N0, sides, v1, v2, v3) ==
    [goodImageSize |-> N0,
     steps |-> <<[side |-> sides[1], sb |-> CoreSb], [side |-> sides[2], sb |-> v1],
                 [side |-> sides[3], sb |-> v2], [side |-> sides[4], sb |-> v3]>>]

ProfileShapes ==
    { <<40, <<36, 38, 50, 60>> >>,
      <<100, <<60, 95, 105, 150>> >>,
      <<100, <<70, 95, 105, 150>> >>,
      <<1400, <<1000, 1350, 1450, 2100>> >>,
      <<4000, <<2600, 3700, 3900, 4050>> >> }

CenteredObjects ==
    { StepProfile(sh[1], sh[2], v1, v2, v3) :
        sh \in ProfileShapes, v1 \in 0..MaxSb, v2 \in 0..MaxSb, v3 \in 0..MaxSb }

RECURSIVE StepValue(_, _, _)
StepValue(steps, k, N) ==
    IF k > Len(steps) THEN 0
    ELSE IF SzLT(N, steps[k].side) THEN steps[k].sb
    ELSE StepValue(steps, k + 1, N)

\* the eight points (h, 0), (-h, 0), ..., (-h, -h) in units of h
EdgePoints ==
    { <<1, 0>>, <<-1, 0>>, <<0, 1>>, <<0, -1>>, <<1, 1>>, <<1, -1>>, <<-1, 1>>, <<-1, -1>> }

\* obj.xValue(x, y) at a point of the square of side N (h = N / 2 * pixel_scale)
xValue(obj, N, p) == StepValue(obj.steps, 1, N)

\* maxval = np.max(xvalues)
maxval(obj, N) ==
    CHOOSE v \in {xValue(obj, N, p) : p \in EdgePoints} :
        \A p \in EdgePoints : xValue(obj, N, p) <= v

\* while N < Nmax: ... if maxval < keep_sb_level: break; N *= factor
RECURSIVE GrowLoop(_, _, _)
GrowLoop(obj, keep_sb_level, N) ==
    IF ~SzLT(N, Nmax_phot) THEN N
    ELSE IF maxval(obj, N) < keep_sb_level THEN N
    ELSE GrowLoop(obj, keep_sb_level, SzTimesFactor(N))

\* N /= factor, and the same done twice
ShrinkStepTwice(N) == SzOverFactor(SzOverFactor(N))
ShrinkStep(N) == SzOverFactor(N)

\* the second loop without its bound: while True: ...
RECURSIVE ShrinkLoopNoFloor(_, _, _)
ShrinkLoopNoFloor(obj, keep_sb_level, N) ==
    IF maxval(obj, SzOverFactor(N)) > keep_sb_level THEN N
    ELSE ShrinkLoopNoFloor(obj, keep_sb_level, ShrinkStep(N))

\* while N >= 64 * factor: ... if maxval > keep_sb_level: break; N /= factor
RECURSIVE ShrinkLoop(_, _, _)
ShrinkLoop(obj, keep_sb_level, N) ==
    IF SzLT(SzOverFactor(N), Nmin_phot) THEN N
    ELSE IF maxval(obj, SzOverFactor(N)) > keep_sb_level THEN N
    ELSE ShrinkLoop(obj, keep_sb_level, ShrinkStep(N))

\* N after the first loop
GrownSize(obj, keep_sb_level) == GrowLoop(obj, keep_sb_level, Sz(obj.goodImageSize, 0))

getGoodPhotImageSize(obj, keep_sb_level) ==
    SzInt(ShrinkLoop(obj, keep_sb_level, SzMin(GrownSize(obj, keep_sb_level), Nmax_phot)))

\* gsObject.galSimType.lower()
Lower(galSimType) ==
    CASE galSimType = "pointSource" -> "pointsource"
      [] galSimType = "sersic" -> "sersic"
      [] galSimType = "RandomWalk" -> "randomwalk"
      [] galSimType = "FitsImage" -> "fitsimage"
      [] OTHER -> galSimType

\* image_size = max(getGoodPhotImageSize(obj, large_object_sb_level), Nmax), and
\* the same with the clamp left out
ClampLargeIgnored(obj, image_size, large_object_sb_level, Nmax) == image_size
ClampLarge(obj, image_size, large_object_sb_level, Nmax) ==
    Max(getGoodPhotImageSize(obj, large_object_sb_level), Nmax)

\* image_size of getStampBounds; obj is the profile built in the branch taken
\* (drawPointSource with the Kolmogorov PSF, or createCenteredObject with the
\* double Gaussian PSF)
StampImageSize(galSimType, obj, flux, keep_sb_level, large_object_sb_level, Nmax) ==
    IF flux < faint_flux THEN faint_image_size
    ELSE IF Lower(galSimType) = "pointsource" THEN obj.goodImageSize
    ELSE LET size0 == obj.goodImageSize
             size1 == IF flux > 10 * size0 * size0
                      THEN getGoodPhotImageSize(obj, keep_sb_level)
                      ELSE size0
         IN IF size1 > Nmax
            THEN ClampLarge(obj, size1, large_object_sb_level, Nmax)
            ELSE size1

\* int(a -/+ image_size/2) for an integer a (math.floor or math.ceil of the
\* position): "/" is the floor division of integers under Python 2 and the
\* true division under Python 3, where int() then truncates towards zero
Truncate2(v2) == IF v2 >= 0 THEN v2 \div 2 ELSE 0 - ((0 - v2) \div 2)
IntMinusHalf(a, image_size, division) ==
    IF division = "floor" THEN a - image_size \div 2 ELSE Truncate2(2 * a - image_size)
IntPlusHalf(a, image_size, division) ==
    IF division = "floor" THEN a + image_size \div 2 ELSE Truncate2(2 * a + image_size)

\* galsim.BoundsI(xmin, xmax, ymin, ymax): both ends are included
BoundsI(xmin, xmax, ymin, ymax) == [xmin |-> xmin, xmax |-> xmax, ymin |-> ymin, ymax |-> ymax]
xSide(bounds) == bounds.xmax - bounds.xmin + 1
ySide(bounds) == bounds.ymax - bounds.ymin + 1

\* a coordinate of image_pos, given by its math.floor and math.ceil
Coordinate(fl, integral) == [floor |-> fl, ceil |-> IF integral THEN fl ELSE fl + 1]

\* the bounds object centered on the desired location
BoundsAround(image_pos, image_size, division) ==
    BoundsI(IntMinusHalf(image_pos.x.floor, image_size, division),
            IntPlusHalf(image_pos.x.ceil, image_size, division),
            IntMinusHalf(image_pos.y.floor, image_size, division),
            IntPlusHalf(image_pos.y.ceil, image_size, division))

getStampBounds(galSimType, obj, flux, image_pos, keep_sb_level, large_object_sb_level, Nmax, division) ==
    BoundsAround(image_pos,
                 StampImageSize(galSimType, obj, flux, keep_sb_level,
                                large_object_sb_level, Nmax),
                 division)

\* ------------------------------------------------------------------------
\* The stamp sizing functions on their own
\* ------------------------------------------------------------------------
StampTypes == {"pointSource", "sersic", "FitsImage"}
StampFluxes == {5, 10, 150000, 2000000000}
KeepLevels == 1..MaxKeep
ImagePositions ==
    { [x |-> Coordinate(fx, ix), y |-> Coordinate(fy, iy)] :
        fx \in {-40, 10}, ix \in BOOLEAN, fy \in {7}, iy \in {FALSE} }
Divisions == {"floor", "true"}

InitStamp ==
    /\ cfg = DispatchConfig
    /\ Constructed(cfg, <<detA, detB>>)
    /\ NoCall
    /\ ckptFile = AbsentFile
    /\ tmpFile = AbsentFile
    /\ ncalls = 0
    /\ hist = [pre |-> NoSnapshot, commit |-> NoSnapshot, restored |-> <<>>,
               replaced |-> {}, error |-> "none"]
    /\ stamp = NoStamp
    /\ centroid_handles = EmptyDict
    /\ centroidFiles = EmptyDict
    /\ driver = NoDriver
    /\ heap = NoHeap
    /\ twin = NoTwin

\* getStampBounds as drawObject calls it: large_object_sb_level = 3*keep_sb_level
getStampBounds_call(galSimType, obj, flux, image_pos, keep_sb_level, division) ==
    /\ pc = "idle"
    /\ LET image_size == StampImageSize(galSimType, obj, flux, keep_sb_level,
                                        3 * keep_sb_level, Nmax_default)
       IN stamp' = [op |-> "getStampBounds", galSimType |-> galSimType, obj |-> obj,
                    flux |-> flux, image_pos |-> image_pos,
                    keep_sb_level |-> keep_sb_level,
                    large_object_sb_level |-> 3 * keep_sb_level, Nmax |-> Nmax_default,
                    division |-> division, image_size |-> image_size,
                    bounds |-> BoundsAround(image_pos, image_size, division)]
    /\ pc' = "bounds"
    /\ UNCHANGED <<driver, heap, centroid_handles, centroidFiles, interpVars, twin, memVars, callVars, wc, diskVars, cfg, ncalls, hist>>

getGoodPhotImageSize_call(obj, keep_sb_level) ==
    /\ pc = "idle"
    /\ stamp' = [op |-> "getGoodPhotImageSize", obj |-> obj, keep_sb_level |-> keep_sb_level,
                 size |-> getGoodPhotImageSize(obj, keep_sb_level)]
    /\ pc' = "sized"
    /\ UNCHANGED <<driver, heap, centroid_handles, centroidFiles, interpVars, twin, memVars, callVars, wc, diskVars, cfg, ncalls, hist>>

stamp_return ==
    /\ pc \in {"bounds", "sized"}
    /\ stamp' = NoStamp
    /\ pc' = "idle"
    /\ UNCHANGED <<driver, heap, centroid_handles, centroidFiles, interpVars, twin, memVars, callVars, wc, diskVars, cfg, ncalls, hist>>

NextStamp ==
    \/ /\ pc = "idle"
       /\ \E galSimType \in StampTypes, obj \in CenteredObjects, flux \in StampFluxes,
             image_pos \in ImagePositions, keep_sb_level \in KeepLevels,
             division \in Divisions :
             getStampBounds_call(galSimType, obj, flux, image_pos, keep_sb_level, division)
    \/ /\ pc = "idle"
       /\ \E obj \in CenteredObjects, keep_sb_level \in KeepLevels :
             getGoodPhotImageSize_call(obj, keep_sb_level)
    \/ stamp_return

SpecStamp == InitStamp /\ [][NextStamp]_vars

\* ------------------------------------------------------------------------
\* Two sessions side by side: two interpreters constructed with the same
\* integer seed, detectors, bands and configuration are handed the same
\* sources in the same order.  A drawObject call is taken as a whole.
\* ------------------------------------------------------------------------
\* sources handed to each of the two sessions
MaxTwinSources == 2
\* the seeds are 0..MaxSeed
MaxSeed == 1
\* the realisations of a random walk are 1..MaxWalks
MaxWalks == 2

\* galsim.PoissonDeviate(self._rng, mean=f)(): a function of the generator's
\* seed and position
PoissonDeviate(seed, pos, mean) == IF mean = 0 THEN 0 ELSE (seed + pos) % (MaxRealized + 1)

\* the realisations createCenteredObject can return for a source:
\* drawRandomWalk seeds the walk with the uniqueId, and with nothing
\* (rng = None) when the uniqueId is None; the same with the walk never seeded
CenteredRealizationsUnseeded(obj) ==
    IF obj.galSimType = "RandomWalk" THEN 1..MaxWalks ELSE {0}
CenteredRealizations(obj) ==
    IF obj.galSimType = "RandomWalk"
    THEN IF obj.uniqueId = NoneId THEN 1..MaxWalks ELSE {1 + (obj.uniqueId % MaxWalks)}
    ELSE {0}

\* obj.drawImage(..., image=image, add_to_image=True) for the realisation drawn
drawImageOf(image, uniqueId, flux, realization) ==
    [drawImage(image, uniqueId, flux) EXCEPT !.walk = @ + flux * realization]

Session(c) ==
    [rng |-> 0, detectorImages |-> EmptyDict, blankImageCache |-> EmptyDict,
     drawn_objects |-> {}, centroid_list |-> <<>>, returned |-> <<>>, n |-> 0]

\* _addNoiseAndBackground: the k-th pass of "for detector: for bandpassName"
RECURSIVE OpenTargets(_, _, _, _)
OpenTargets(sess, dlist, k, c) ==
    IF k > Len(dlist) * Len(bandpassDict) THEN sess
    ELSE LET detector == dlist[((k - 1) \div Len(bandpassDict)) + 1]
             bandpassName == bandpassDict[((k - 1) % Len(bandpassDict)) + 1]
             name == getFileName(detector, bandpassName)
             blank == blankImage(sess.blankImageCache, detector)
         IN OpenTargets(
               IF name \in DOMAIN sess.detectorImages THEN sess
               ELSE [sess EXCEPT
                        !.detectorImages = @ @@
                            (name :> IF c.noiseWrapper # "None"
                                     THEN addNoiseAndBackground(blank) ELSE blank),
                        !.blankImageCache = blankImageCacheAfter(@, detector)],
               dlist, k + 1, c)

\* the draw loops: the k-th pass of "for bandpassName, realized_flux: for detector"
RECURSIVE DrawLoops(_, _, _, _, _, _, _)
DrawLoops(sess, dlist, k, obj, rf, realization, c) ==
    IF k > Len(dlist) * Len(bandpassDict) THEN sess
    ELSE LET b == ((k - 1) \div Len(dlist)) + 1
             detector == dlist[((k - 1) % Len(dlist)) + 1]
             name == getFileName(detector, bandpassDict[b])
         IN DrawLoops(
               [sess EXCEPT
                   !.detectorImages[name] = drawImageOf(@, obj.uniqueId, rf[b], realization),
                   !.rng = @ + 1,
                   !.centroid_list =
                       IF c.centroid_base_name # "None"
                       THEN Append(@, centroid_tuple(detector, bandpassDict[b], obj))
                       ELSE @],
               dlist, k + 1, obj, rf, realization, c)

\* drawObject(gsObject) on a session whose createCenteredObject returns the
\* given realisation; what the call returns (or "raise") is appended to returned
drawObjectCall(sess, obj, realization, seed, c) ==
    IF createCenteredObjectRaises(obj, "None", c.PSF)
    THEN [sess EXCEPT !.returned = Append(@, <<"raise">>), !.n = @ + 1]
    ELSE LET found == findAllDetectors(<<detA, detB>>, obj, conservative_factor)
             rf == [b \in BandIndex |->
                       PoissonDeviate(seed, sess.rng + b - 1, obj.flux[bandpassDict[b]])]
             marked == [sess EXCEPT !.drawn_objects = AddDrawn(@, obj.uniqueId),
                                    !.rng = @ + Len(bandpassDict),
                                    !.returned = Append(@, found.outputString),
                                    !.n = @ + 1]
         IN IF AllZero(rf) \/ Len(found.outputList) = 0 THEN marked
            ELSE DrawLoops(OpenTargets(marked, found.outputList, 1, c),
                           found.outputList, 1, obj, rf, realization, c)

TwinConfigs ==
    [checkpoint_file : {"None"},
     nobj_checkpoint : {nobj_checkpoint_default},
     noiseWrapper : {"None", "noise"},
     centroid_base_name : {"None", "centroid"},
     PSF : {"None", "psf"}]

InitTwin ==
    /\ cfg \in TwinConfigs
    /\ Constructed(cfg, <<detA, detB>>)
    /\ NoCall
    /\ ckptFile = AbsentFile
    /\ tmpFile = AbsentFile
    /\ ncalls = 0
    /\ hist = [pre |-> NoSnapshot, commit |-> NoSnapshot, restored |-> <<>>,
               replaced |-> {}, error |-> "none"]
    /\ stamp = NoStamp
    /\ centroid_handles = EmptyDict
    /\ centroidFiles = EmptyDict
    /\ driver = NoDriver
    /\ heap = NoHeap
    /\ \E seed \in 0..MaxSeed :
          twin = [seed |-> seed, a |-> Session(cfg), b |-> Session(cfg), sources |-> <<>>]

\* the first session is handed one more source
twin_drawObject_a(obj) ==
    /\ Len(twin.sources) < MaxTwinSources
    /\ \E realization \in CenteredRealizations(obj) :
          twin' = [twin EXCEPT
                      !.a = drawObjectCall(@, obj, realization, twin.seed, cfg),
                      !.sources = Append(@, obj)]
    /\ UNCHANGED <<driver, heap, centroid_handles, centroidFiles, interpVars, stamp, memVars, callVars, pc, wc, diskVars, cfg, ncalls, hist>>

\* the second session is handed its next source
twin_drawObject_b ==
    /\ twin.b.n < Len(twin.sources)
    /\ LET obj == twin.sources[twin.b.n + 1]
       IN \E realization \in CenteredRealizations(obj) :
             twin' = [twin EXCEPT !.b = drawObjectCall(@, obj, realization, twin.seed, cfg)]
    /\ UNCHANGED <<driver, heap, centroid_handles, centroidFiles, interpVars, stamp, memVars, callVars, pc, wc, diskVars, cfg, ncalls, hist>>

NextTwin ==
    \/ \E obj \in TwinCatalog : twin_drawObject_a(obj)
    \/ twin_drawObject_b

SpecTwin == InitTwin /\ [][NextTwin]_vars

\* ------------------------------------------------------------------------
\* The two variants from their construction on: make_gs_interpreter builds
\* a GalSimInterpreter or a GalSimSiliconInterpeter from the detectors it is
\* handed, the caller configures it, and sources are drawn.  The sensor-model
\* variant draws each (band, detector) pair into a window of the image.
\* ------------------------------------------------------------------------
\* the detectors argument: None, or a list
NoDetectorsArg == [supplied |-> FALSE, list |-> <<>>]
DetectorsArg(list) == [supplied |-> TRUE, list |-> list]

\* if detectors is None: raise RuntimeError; and the test passed by every argument
DetectorsSuppliedAlways(arg) == TRUE
DetectorsSupplied(arg) == arg.supplied

\* what the caller hands to make_gs_interpreter and sets afterwards; division
\* is the "/" of the interpreter running the code, keep_sb_level is
\* sqrt(sky_bg_per_pixel)/3 for the sky_bg_per_pixel the caller sets
VariantConfigs ==
    [apply_sensor_model : BOOLEAN,
     detectors : {NoDetectorsArg, DetectorsArg(<<>>), DetectorsArg(<<detA, detB>>)},
     checkpoint_file : {"ckpt.pkl"},
     nobj_checkpoint : {CheckpointEvery},
     noiseWrapper : {"None", "noise"},
     centroid_base_name : {"None", "centroid"},
     PSF : {"psf"},
     division : Divisions,
     keep_sb_level : {1}]
    \cup
    [apply_sensor_model : BOOLEAN,
     detectors : {DetectorsArg(<<detA, detB>>)},
     checkpoint_file : {"None"},
     nobj_checkpoint : {nobj_checkpoint_default},
     noiseWrapper : {"noise"},
     centroid_base_name : {"centroid"},
     PSF : {"psf"},
     division : Divisions,
     keep_sb_level : {1}]

\* the sources of these runs
VariantCatalog ==
    { GalSimCelestialObject(1, "sersic", 10, 10, 1, 1, 1),       \* on detA only
      GalSimCelestialObject(2, "pointSource", 20, 10, 1, 1, 0),  \* straddles detA and detB
      GalSimCelestialObject(3, "sersic", 100, 100, 1, 1, 1),     \* off the focal plane
      GalSimCelestialObject(5, "unknown", 10, 10, 1, 1, 1),      \* of no known kind
      GalSimCelestialObject(6, "sersic", 22, 10, 1, 1, 1),       \* near detA, on detB
      GalSimCelestialObject(7, "sersic", 10, 24, 1, 1, 1) }      \* near detA, above its image

\* nothing constructed yet
InitVariants ==
    /\ cfg \in VariantConfigs
    /\ detectors = <<>>
    /\ PSF = "None"
    /\ noiseWrapper = "None"
    /\ rng = 0
    /\ detectorImages = EmptyDict
    /\ blankImageCache = EmptyDict
    /\ checkpoint_file = "None"
    /\ nobj_checkpoint = nobj_checkpoint_default
    /\ drawn_objects = {}
    /\ centroid_base_name = "None"
    /\ centroid_list = <<>>
    /\ pc = "new"
    /\ gsObject = NoObject
    /\ outputString = NoneStr
    /\ detectorList = <<>>
    /\ realized_fluxes = <<>>
    /\ di = 0
    /\ bi = 0
    /\ wc = NoFrame
    /\ ckptFile = AbsentFile
    /\ tmpFile = AbsentFile
    /\ ncalls = 0
    /\ hist = [pre |-> NoSnapshot, commit |-> NoSnapshot, restored |-> <<>>,
               replaced |-> {}, error |-> "none"]
    /\ stamp = NoStamp
    /\ centroid_handles = EmptyDict
    /\ centroidFiles = EmptyDict
    /\ driver = NoDriver
    /\ heap = NoHeap
    /\ twin = NoTwin

\* make_gs_interpreter(obs_md, detectors, ...) returns an interpreter of the
\* variant asked for, and the caller configures it
make_gs_interpreter ==
    /\ pc = "new"
    /\ DetectorsSupplied(cfg.detectors)
    /\ detectors' = cfg.detectors.list
    /\ PSF' = cfg.PSF
    /\ noiseWrapper' = cfg.noiseWrapper
    /\ checkpoint_file' = cfg.checkpoint_file
    /\ nobj_checkpoint' = cfg.nobj_checkpoint
    /\ centroid_base_name' = cfg.centroid_base_name
    /\ pc' = "idle"
    /\ UNCHANGED <<driver, heap, centroid_handles, centroidFiles, stamp, twin, memVars, callVars, wc, diskVars, cfg, ncalls, hist>>

\* __init__ raises RuntimeError: no interpreter is returned
make_gs_interpreter_raise ==
    /\ pc = "new"
    /\ ~DetectorsSupplied(cfg.detectors)
    /\ pc' = "failed"
    /\ hist' = [hist EXCEPT !.error = "RuntimeError"]
    /\ UNCHANGED <<driver, heap, centroid_handles, centroidFiles, interpVars, stamp, twin, memVars, callVars, wc, diskVars, cfg, ncalls>>

\* the draw loop of GalSimInterpreter.drawObject
basic_draw ==
    /\ ~cfg.apply_sensor_model
    /\ drawObject_draw

\* galsim.Image(ncol, nrow): the bounds start at (1, 1)
ImageBounds(image) == BoundsI(1, image.nx, 1, image.ny)
\* bounds & other, and bounds.isDefined()
BoundsAnd(a, b) ==
    BoundsI(Max(a.xmin, b.xmin), Min(a.xmax, b.xmax), Max(a.ymin, b.ymin), Min(a.ymax, b.ymax))
isDefined(bounds) == bounds.xmin <= bounds.xmax /\ bounds.ymin <= bounds.ymax

\* bounds = bounds & self.detectorImages[name].bounds, and the same left out
WindowUnclipped(bounds, image) == bounds
Window(bounds, image) == BoundsAnd(bounds, ImageBounds(image))

\* image_pos = galsim.PositionD(xPix, yPix)
PositionD(xy) == [x |-> Coordinate(xy[1], TRUE), y |-> Coordinate(xy[2], TRUE)]

\* the profile getStampBounds builds for the source when it is not faint
StampProfile(obj) == StepProfile(100, <<70, 95, 105, 150>>, 1, 0, 0)

\* the window of one pass of the draw loop of GalSimSiliconInterpeter.drawObject
SiliconBounds ==
    Window(getStampBounds(gsObject.galSimType, StampProfile(gsObject), realized_fluxes[bi],
                          PositionD(pixelCoordsFromPupilCoords(gsObject, detectorList[di])),
                          cfg.keep_sb_level, 3 * cfg.keep_sb_level, Nmax_default,
                          cfg.division),
           detectorImages[drawKey])

\* one pass of the draw loop with bounds.isDefined(): the source is drawn
\* into self.detectorImages[name][bounds]
silicon_draw ==
    /\ cfg.apply_sensor_model
    /\ pc = "draw"
    /\ bi <= Len(bandpassDict)
    /\ isDefined(SiliconBounds)
    /\ stamp' = [op |-> "drawObject", name |-> drawKey, bounds |-> SiliconBounds]
    /\ detectorImages' = [detectorImages EXCEPT
          ![drawKey] = drawImage(@, gsObject.uniqueId, realized_fluxes[bi])]
    /\ rng' = rng + 1
    /\ centroid_list' =
          IF centroid_base_name # "None"
          THEN Append(centroid_list, centroid_tuple(detectorList[di], bandpassDict[bi], gsObject))
          ELSE centroid_list
    /\ IF di < Len(detectorList)
       THEN bi' = bi /\ di' = di + 1
       ELSE bi' = bi + 1 /\ di' = 1
    /\ UNCHANGED <<driver, heap, centroid_handles, centroidFiles, interpVars, twin, blankImageCache, drawn_objects, pc, gsObject, outputString,
                   detectorList, realized_fluxes, wc, diskVars, cfg, ncalls, hist>>

\* the pass with the bounds not defined, with the centroid entry stored all the same
silicon_skipLogged ==
    /\ cfg.apply_sensor_model
    /\ pc = "draw"
    /\ bi <= Len(bandpassDict)
    /\ ~isDefined(SiliconBounds)
    /\ stamp' = [op |-> "drawObject", name |-> drawKey, bounds |-> SiliconBounds]
    /\ centroid_list' =
          IF centroid_base_name # "None"
          THEN Append(centroid_list, centroid_tuple(detectorList[di], bandpassDict[bi], gsObject))
          ELSE centroid_list
    /\ IF di < Len(detectorList)
       THEN bi' = bi /\ di' = di + 1
       ELSE bi' = bi + 1 /\ di' = 1
    /\ UNCHANGED <<driver, heap, centroid_handles, centroidFiles, interpVars, twin, rng, detectorImages, blankImageCache, drawn_objects, pc,
                   gsObject, outputString, detectorList, realized_fluxes, wc, diskVars, cfg,
                   ncalls, hist>>

\* one pass of the draw loop with the bounds not defined: nothing is done
silicon_skip ==
    /\ cfg.apply_sensor_model
    /\ pc = "draw"
    /\ bi <= Len(bandpassDict)
    /\ ~isDefined(SiliconBounds)
    /\ stamp' = [op |-> "drawObject", name |-> drawKey, bounds |-> SiliconBounds]
    /\ IF di < Len(detectorList)
       THEN bi' = bi /\ di' = di + 1
       ELSE bi' = bi + 1 /\ di' = 1
    /\ UNCHANGED <<driver, heap, centroid_handles, centroidFiles, interpVars, twin, memVars, pc, gsObject, outputString,
                   detectorList, realized_fluxes, wc, diskVars, cfg, ncalls, hist>>

NextVariants ==
    \/ make_gs_interpreter
    \/ make_gs_interpreter_raise
    \/ \E obj \in VariantCatalog : drawObject_findAllDetectors(obj)
    \/ \E obj \in VariantCatalog : drawObject_raise(obj)
    \/ drawObject_propagate
    \/ drawObject_markDrawn
    \/ drawObject_realize
    \/ drawObject_zeroFlux
    \/ drawObject_noDetector
    \/ drawObject_addNoiseAndBackground
    \/ addNoiseAndBackground_existing
    \/ addNoiseAndBackground_blank
    \/ addNoiseAndBackground_noise
    \/ addNoiseAndBackground_return
    \/ basic_draw
    \/ silicon_draw
    \/ silicon_skip
    \/ drawObject_write_checkpoint
    \/ drawObject_return
    \/ write_checkpoint_noFile
    \/ write_checkpoint_notDue
    \/ write_checkpoint_open
    \/ write_checkpoint_dump
    \/ write_checkpoint_dump_rest
    \/ write_checkpoint_fsync
    \/ write_checkpoint_chmod
    \/ write_checkpoint_rename

SpecVariants == InitVariants /\ [][NextVariants]_vars

\* ------------------------------------------------------------------------
\* The two variants side by side: a GalSimInterpreter (basic) and a
\* GalSimSiliconInterpeter (silicon) constructed and configured alike are
\* handed the same sources in the same order, and the Poisson deviates of a
\* source come out the same in both.  A drawObject call is taken as a whole;
\* each session keeps what its calls returned and the checkpoints it wrote.
\* ------------------------------------------------------------------------
\* sources handed to each of the two sessions
MaxPairSources == 2

PairSession ==
    [rng |-> 0, detectorImages |-> EmptyDict, blankImageCache |-> EmptyDict,
     drawn_objects |-> {}, centroid_list |-> <<>>, returned |-> <<>>, writes |-> <<>>,
     n |-> 0]

\* write_checkpoint(force): the record written, if one is, is added to writes
\* together with the number of the call that wrote it
WriteCheckpoint(sess, force, c) ==
    IF c.checkpoint_file = "None" THEN sess
    ELSE IF CheckpointDue(force, sess.drawn_objects, c.nobj_checkpoint)
    THEN [sess EXCEPT !.writes =
             Append(@, [call |-> sess.n, force |-> force,
                        keys |-> DOMAIN sess.detectorImages,
                        drawn_objects |-> IF force THEN {} ELSE sess.drawn_objects])]
    ELSE sess

\* _addNoiseAndBackground: the k-th pass of "for detector: for bandpassName"
RECURSIVE AddNoiseAndBackgroundLoop(_, _, _, _)
AddNoiseAndBackgroundLoop(sess, dlist, k, c) ==
    IF k > Len(dlist) * Len(bandpassDict) THEN sess
    ELSE LET detector == dlist[((k - 1) \div Len(bandpassDict)) + 1]
             bandpassName == bandpassDict[((k - 1) % Len(bandpassDict)) + 1]
             name == getFileName(detector, bandpassName)
             blank == blankImage(sess.blankImageCache, detector)
         IN AddNoiseAndBackgroundLoop(
               IF name \in DOMAIN sess.detectorImages THEN sess
               ELSE IF c.noiseWrapper = "None"
               THEN [sess EXCEPT !.detectorImages = @ @@ (name :> blank),
                                 !.blankImageCache = blankImageCacheAfter(@, detector)]
               ELSE WriteCheckpoint(
                       [sess EXCEPT
                           !.detectorImages = @ @@ (name :> addNoiseAndBackground(blank)),
                           !.blankImageCache = blankImageCacheAfter(@, detector)],
                       TRUE, c),
               dlist, k + 1, c)

\* the draw loops of GalSimInterpreter.drawObject from the k-th pass on
RECURSIVE BasicDrawLoops(_, _, _, _, _, _)
BasicDrawLoops(sess, dlist, k, obj, rf, c) ==
    IF k > Len(dlist) * Len(bandpassDict) THEN sess
    ELSE LET b == ((k - 1) \div Len(dlist)) + 1
             detector == dlist[((k - 1) % Len(dlist)) + 1]
             name == getFileName(detector, bandpassDict[b])
         IN BasicDrawLoops(
               [sess EXCEPT
                   !.detectorImages[name] = drawImage(@, obj.uniqueId, rf[b]),
                   !.rng = @ + 1,
                   !.centroid_list =
                       IF c.centroid_base_name # "None"
                       THEN Append(@, centroid_tuple(detector, bandpassDict[b], obj))
                       ELSE @],
               dlist, k + 1, obj, rf, c)

\* the draw loops of GalSimSiliconInterpeter.drawObject from the k-th pass on
RECURSIVE SiliconDrawLoops(_, _, _, _, _, _)
SiliconDrawLoops(sess, dlist, k, obj, rf, c) ==
    IF k > Len(dlist) * Len(bandpassDict) THEN sess
    ELSE LET b == ((k - 1) \div Len(dlist)) + 1
             detector == dlist[((k - 1) % Len(dlist)) + 1]
             name == getFileName(detector, bandpassDict[b])
             bounds == Window(getStampBounds(obj.galSimType, StampProfile(obj), rf[b],
                                             PositionD(pixelCoordsFromPupilCoords(obj, detector)),
                                             c.keep_sb_level, 3 * c.keep_sb_level,
                                             Nmax_default, c.division),
                              sess.detectorImages[name])
         IN SiliconDrawLoops(
               IF isDefined(bounds)
               THEN [sess EXCEPT
                        !.detectorImages[name] = drawImage(@, obj.uniqueId, rf[b]),
                        !.rng = @ + 1,
                        !.centroid_list =
                            IF c.centroid_base_name # "None"
                            THEN Append(@, centroid_tuple(detector, bandpassDict[b], obj))
                            ELSE @]
               ELSE sess,
               dlist, k + 1, obj, rf, c)

\* the part of drawObject that is before the draw loops in both classes;
\* done tells that the call has returned (or raised) in it
BeforeDrawLoops(sess, obj, rf, c) ==
    IF createCenteredObjectRaises(obj, "None", c.PSF)
    THEN [done |-> TRUE, sess |-> [sess EXCEPT !.returned = Append(@, <<"raise">>), !.n = @ + 1]]
    ELSE LET found == findAllDetectors(c.detectors.list, obj, conservative_factor)
             marked == [sess EXCEPT !.drawn_objects = AddDrawn(@, obj.uniqueId),
                                    !.rng = @ + Len(bandpassDict),
                                    !.returned = Append(@, found.outputString),
                                    !.n = @ + 1]
         IN IF AllZero(rf) \/ Len(found.outputList) = 0
            THEN [done |-> TRUE, sess |-> marked]
            ELSE [done |-> FALSE,
                  sess |-> AddNoiseAndBackgroundLoop(marked, found.outputList, 1, c)]

\* GalSimInterpreter.drawObject(gsObject) with the deviates rf
GalSimInterpreter_drawObject(sess, obj, rf, c) ==
    LET before == BeforeDrawLoops(sess, obj, rf, c)
    IN IF before.done THEN before.sess
       ELSE WriteCheckpoint(
               BasicDrawLoops(before.sess,
                              findAllDetectors(c.detectors.list, obj,
                                               conservative_factor).outputList,
                              1, obj, rf, c),
               FALSE, c)

\* GalSimSiliconInterpeter.drawObject(gsObject) without the write_checkpoint()
\* that closes it
GalSimSiliconInterpeter_drawObjectNoCheckpoint(sess, obj, rf, c) ==
    LET before == BeforeDrawLoops(sess, obj, rf, c)
    IN IF before.done THEN before.sess
       ELSE SiliconDrawLoops(before.sess,
                             findAllDetectors(c.detectors.list, obj,
                                              conservative_factor).outputList,
                             1, obj, rf, c)

\* GalSimSiliconInterpeter.drawObject(gsObject) with the deviates rf
GalSimSiliconInterpeter_drawObject(sess, obj, rf, c) ==
    LET before == BeforeDrawLoops(sess, obj, rf, c)
    IN IF before.done THEN before.sess
       ELSE WriteCheckpoint(
               SiliconDrawLoops(before.sess,
                                findAllDetectors(c.detectors.list, obj,
                                                 conservative_factor).outputList,
                                1, obj, rf, c),
               FALSE, c)

PairConfigs ==
    [apply_sensor_model : {TRUE},
     detectors : {DetectorsArg(<<detA, detB>>)},
     checkpoint_file : {"ckpt.pkl"},
     nobj_checkpoint : {CheckpointEvery},
     noiseWrapper : {"None", "noise"},
     centroid_base_name : {"None", "centroid"},
     PSF : {"None", "psf"},
     division : Divisions,
     keep_sb_level : {1}]

InitPair ==
    /\ cfg \in PairConfigs
    /\ Constructed(cfg, cfg.detectors.list)
    /\ NoCall
    /\ ckptFile = AbsentFile
    /\ tmpFile = AbsentFile
    /\ ncalls = 0
    /\ hist = [pre |-> NoSnapshot, commit |-> NoSnapshot, restored |-> <<>>,
               replaced |-> {}, error |-> "none"]
    /\ stamp = NoStamp
    /\ centroid_handles = EmptyDict
    /\ centroidFiles = EmptyDict
    /\ driver = NoDriver
    /\ heap = NoHeap
    /\ twin = [a |-> PairSession, b |-> PairSession, sources |-> <<>>, fluxes |-> <<>>]

\* the basic session is handed one more source; rf are its Poisson deviates
pair_drawObject_basic(obj, rf) ==
    /\ Len(twin.sources) < MaxPairSources
    /\ \A b \in BandIndex : rf[b] \in PoissonValues(obj.flux[bandpassDict[b]])
    /\ twin' = [twin EXCEPT !.a = GalSimInterpreter_drawObject(@, obj, rf, cfg),
                            !.sources = Append(@, obj),
                            !.fluxes = Append(@, rf)]
    /\ UNCHANGED <<driver, heap, centroid_handles, centroidFiles, interpVars, stamp, memVars, callVars, pc, wc, diskVars, cfg, ncalls, hist>>

\* the sensor-model session is handed its next source, with the same deviates
pair_drawObject_silicon ==
    /\ twin.b.n < Len(twin.sources)
    /\ twin' = [twin EXCEPT !.b = GalSimSiliconInterpeter_drawObject(
                                     @, twin.sources[twin.b.n + 1],
                                     twin.fluxes[twin.b.n + 1], cfg)]
    /\ UNCHANGED <<driver, heap, centroid_handles, centroidFiles, interpVars, stamp, memVars, callVars, pc, wc, diskVars, cfg, ncalls, hist>>

NextPair ==
    \/ \E obj \in VariantCatalog, rf \in [BandIndex -> 0..MaxRealized] :
          pair_drawObject_basic(obj, rf)
    \/ pair_drawObject_silicon

SpecPair == InitPair /\ [][NextPair]_vars

\* ------------------------------------------------------------------------
\* The centroid files: drawObject fills centroid_list, write_centroid_files
\* writes it out.  A file is kept as the lines written to it; a call of
\* write_centroid_files is taken as a whole.
\* ------------------------------------------------------------------------
\* centroid_name = detector_name + '_' + bandpass_name; the file is
\* centroid_base_name + str(visitID) + '_' + centroid_name + '.txt.gz'
CentroidName(detector_name, bandpass_name) == detector_name \o <<"_", bandpass_name>>
\* '{:15} {:>15} {:>10} {:>10}\n'.format('SourceID', 'Flux', 'xPix', 'yPix')
CentroidHeader == <<"SourceID", "Flux", "xPix", "yPix">>
\* '{:<15} {:15.5f} {:10.2f} {:10.2f}\n'.format(uniqueId, flux, xPix, yPix)
CentroidLine(uniqueId, flux, xPix, yPix) == <<uniqueId, flux, xPix, yPix>>

\* open_centroid_file: gzip.open(file_name, 'wt') makes the file anew, the
\* header is written; file_name cannot be built from a centroid_base_name None
open_centroid_file(st, centroid_name, base) ==
    IF base = "None" THEN [st EXCEPT !.error = "TypeError"]
    ELSE [st EXCEPT
            !.handles = [n \in DOMAIN @ \cup {centroid_name} |->
                            IF n = centroid_name THEN "open" ELSE @[n]],
            !.files = [n \in DOMAIN @ \cup {centroid_name} |->
                          IF n = centroid_name THEN <<CentroidHeader>> ELSE @[n]]]

\* _writeObjectToCentroidFile(*centroid_tuple): write() on a closed file
\* raises ValueError
writeObjectToCentroidFile(st, entry, base) ==
    LET centroid_name == CentroidName(entry[1], entry[2])
        opened == IF centroid_name \notin DOMAIN st.handles
                  THEN open_centroid_file(st, centroid_name, base)
                  ELSE st
    IN IF opened.error # "none" THEN opened
       ELSE IF opened.handles[centroid_name] = "closed"
       THEN [opened EXCEPT !.error = "ValueError"]
       ELSE [opened EXCEPT !.files[centroid_name] =
                Append(@, CentroidLine(entry[3], entry[4], entry[5], entry[6]))]

\* for centroid_tuple in self.centroid_list, from the k-th entry on
RECURSIVE WriteEntries(_, _, _, _)
WriteEntries(st, list, k, base) ==
    IF k > Len(list) \/ st.error # "none" THEN st
    ELSE WriteEntries(writeObjectToCentroidFile(st, list[k], base), list, k + 1, base)

\* for name in self.centroid_handles: self.centroid_handles[name].close()
CloseAll(handles) == [n \in DOMAIN handles |-> "closed"]

\* the loop over the entries of write_centroid_files
CentroidEntriesWritten ==
    WriteEntries([handles |-> centroid_handles, files |-> centroidFiles, error |-> "none"],
                 centroid_list, 1, centroid_base_name)

\* write_centroid_files() runs to its end
write_centroid_files ==
    /\ pc = "idle"
    /\ CentroidEntriesWritten.error = "none"
    /\ centroid_handles' = CloseAll(CentroidEntriesWritten.handles)
    /\ centroidFiles' = CentroidEntriesWritten.files
    /\ pc' = "written"
    /\ hist' = [hist EXCEPT !.pre = CallSnapshot]
    /\ UNCHANGED <<driver, heap, interpVars, stamp, twin, memVars, callVars, wc, diskVars, cfg, ncalls>>

\* write_centroid_files() raises in its first loop: the second is not reached
write_centroid_files_raise ==
    /\ pc = "idle"
    /\ CentroidEntriesWritten.error # "none"
    /\ centroid_handles' = CentroidEntriesWritten.handles
    /\ centroidFiles' = CentroidEntriesWritten.files
    /\ pc' = "raised"
    /\ hist' = [hist EXCEPT !.pre = CallSnapshot, !.error = CentroidEntriesWritten.error]
    /\ UNCHANGED <<driver, heap, interpVars, stamp, twin, memVars, callVars, wc, diskVars, cfg, ncalls>>

write_centroid_files_return ==
    /\ pc = "written"
    /\ EndCall
    /\ UNCHANGED <<driver, heap, centroid_handles, centroidFiles, interpVars, stamp, twin, memVars, diskVars,
                   cfg, ncalls>>

\* the exception reaches the caller
write_centroid_files_propagate ==
    /\ pc = "raised"
    /\ EndCall
    /\ UNCHANGED <<driver, heap, centroid_handles, centroidFiles, interpVars, stamp, twin, memVars, diskVars,
                   cfg, ncalls>>

\* the run: an interpreter that logs centroids and writes no checkpoint
CentroidConfig ==
    [checkpoint_file |-> "None", nobj_checkpoint |-> nobj_checkpoint_default,
     noiseWrapper |-> "None", centroid_base_name |-> "centroid", PSF |-> "psf"]

CentroidCatalog == {obj \in Catalog : obj.galSimType \in KnownTypes}

InitCentroid ==
    /\ cfg = CentroidConfig
    /\ Constructed(cfg, <<detA, detB>>)
    /\ NoCall
    /\ ckptFile = AbsentFile
    /\ tmpFile = AbsentFile
    /\ ncalls = 0
    /\ hist = [pre |-> NoSnapshot, commit |-> NoSnapshot, restored |-> <<>>,
               replaced |-> {}, error |-> "none"]
    /\ stamp = NoStamp
    /\ centroid_handles = EmptyDict
    /\ centroidFiles = EmptyDict
    /\ driver = NoDriver
    /\ heap = NoHeap
    /\ twin = NoTwin

NextCentroid ==
    \/ \E obj \in CentroidCatalog : drawObject_findAllDetectors(obj)
    \/ drawObject_markDrawn
    \/ drawObject_realize
    \/ drawObject_zeroFlux
    \/ drawObject_noDetector
    \/ drawObject_addNoiseAndBackground
    \/ addNoiseAndBackground_existing
    \/ addNoiseAndBackground_blank
    \/ addNoiseAndBackground_return
    \/ drawObject_draw
    \/ drawObject_write_checkpoint
    \/ write_checkpoint_noFile
    \/ drawObject_return
    \/ write_centroid_files
    \/ write_centroid_files_raise
    \/ write_centroid_files_return
    \/ write_centroid_files_propagate

SpecCentroid == InitCentroid /\ [][NextCentroid]_vars

\* ------------------------------------------------------------------------
\* A run that survives the loss of its process.  The loop of the caller
\* hands the catalog to drawObject, source after source.  When the process
\* dies a new interpreter is constructed and configured, restore_checkpoint
\* is called on it and the loop starts again from the first source, passing
\* over every source whose uniqueId is in drawn_objects.
\* ------------------------------------------------------------------------
MaxCrashes == 1
MaxResumeSources == 2

ResumeCatalog == {obj \in Catalog : obj.galSimType \in KnownTypes}
ResumeOrders ==
    {s \in [1..MaxResumeSources -> ResumeCatalog] : \A i, j \in DOMAIN s : s[i] = s[j] => i = j}

ResumeConfigs ==
    [checkpoint_file : {"ckpt.pkl"},
     nobj_checkpoint : {1, CheckpointEvery},
     noiseWrapper : {"None", "noise"},
     centroid_base_name : {"None", "centroid"},
     PSF : {"psf"}]

\* the loop before its first source: realized[id] is what PoissonDeviate
\* returned in the latest drawObject call for id (<<>>: no call yet)
Driver(order) ==
    [pos |-> 1, order |-> order, phase |-> "run", crashes |-> 0,
     realized |-> [id \in SourceIds |-> <<>>]]

InitResume ==
    /\ cfg \in ResumeConfigs
    /\ Constructed(cfg, <<detA, detB>>)
    /\ NoCall
    /\ ckptFile = AbsentFile
    /\ tmpFile = AbsentFile
    /\ ncalls = 0
    /\ hist = [pre |-> NoSnapshot, commit |-> NoSnapshot, restored |-> <<>>,
               replaced |-> {}, error |-> "none"]
    /\ stamp = NoStamp
    /\ centroid_handles = EmptyDict
    /\ centroidFiles = EmptyDict
    /\ driver \in {Driver(order) : order \in ResumeOrders}
    /\ heap = NoHeap
    /\ twin = NoTwin

\* the loop reaches a source that is not in drawn_objects: drawObject(gsObject)
resume_drawObject ==
    /\ pc = "idle"
    /\ driver.phase = "run"
    /\ driver.pos <= Len(driver.order)
    /\ driver.order[driver.pos].uniqueId \notin drawn_objects
    /\ drawObject_findAllDetectors(driver.order[driver.pos])

\* the loop passes over a source that is in drawn_objects
resume_skip ==
    /\ pc = "idle"
    /\ driver.phase = "run"
    /\ driver.pos <= Len(driver.order)
    /\ driver.order[driver.pos].uniqueId \in drawn_objects
    /\ driver' = [driver EXCEPT !.pos = @ + 1]
    /\ UNCHANGED <<heap, centroid_handles, centroidFiles, interpVars, stamp, twin, memVars, callVars, wc, pc, diskVars, cfg, ncalls, hist>>

\* return outputString, and the loop moves on to the next source
resume_return ==
    /\ pc = "return"
    /\ EndCall
    /\ driver' = [driver EXCEPT !.pos = @ + 1,
                                !.realized[gsObject.uniqueId] = realized_fluxes]
    /\ UNCHANGED <<heap, centroid_handles, centroidFiles, interpVars, stamp, twin, memVars, diskVars, cfg, ncalls>>

\* the process dies, at any point, and the run is started again
resume_crash ==
    /\ driver.crashes < MaxCrashes
    /\ ~(pc = "idle" /\ IsFresh)
    /\ rng' = 0
    /\ detectorImages' = EmptyDict
    /\ blankImageCache' = EmptyDict
    /\ drawn_objects' = {}
    /\ centroid_list' = <<>>
    /\ centroid_handles' = EmptyDict
    /\ EndCallLocals
    /\ hist' = [hist EXCEPT !.pre = NoSnapshot, !.restored = <<>>, !.replaced = {},
                            !.error = "none"]
    /\ tmpFile' = IF tmpFile.exists THEN OrphanFile ELSE tmpFile
    /\ ncalls' = 0
    /\ driver' = [driver EXCEPT !.pos = 1, !.phase = "restore", !.crashes = @ + 1,
                                !.realized = IF realized_fluxes = <<>> THEN @
                                             ELSE [@ EXCEPT ![gsObject.uniqueId] = realized_fluxes]]
    /\ UNCHANGED <<heap, centroidFiles, interpVars, stamp, twin, ckptFile, cfg>>

\* restore_checkpoint on the new interpreter, before the loop
resume_restore_checkpoint ==
    /\ driver.phase = "restore"
    /\ restore_checkpoint_load \/ restore_checkpoint_noFile

\* restore_checkpoint returns and the loop starts
resume_restored ==
    /\ pc = "restored"
    /\ driver.phase = "restore"
    /\ EndCall
    /\ driver' = [driver EXCEPT !.phase = "run"]
    /\ UNCHANGED <<heap, centroid_handles, centroidFiles, interpVars, stamp, twin, memVars, diskVars, cfg, ncalls>>

NextResume ==
    \/ resume_drawObject
    \/ resume_skip
    \/ resume_return
    \/ resume_crash
    \/ resume_restore_checkpoint
    \/ resume_restored
    \/ drawObject_markDrawn
    \/ drawObject_realize
    \/ drawObject_zeroFlux
    \/ drawObject_noDetector
    \/ drawObject_addNoiseAndBackground
    \/ addNoiseAndBackground_existing
    \/ addNoiseAndBackground_blank
    \/ addNoiseAndBackground_noise
    \/ addNoiseAndBackground_return
    \/ drawObject_draw
    \/ drawObject_write_checkpoint
    \/ write_checkpoint_notDue
    \/ write_checkpoint_open
    \/ write_checkpoint_dump
    \/ write_checkpoint_dump_rest
    \/ write_checkpoint_fsync
    \/ write_checkpoint_chmod
    \/ write_checkpoint_rename

SpecResume == InitResume /\ [][NextResume]_vars

\* ------------------------------------------------------------------------
\* The pixel arrays behind the images.  An image is the address of its
\* array; image.copy() allocates a new array, "image += array" and
\* drawImage(image=..., add_to_image=True) write into the array of the image
\* they are given.  The contents of an array are the sum of its pixels
\* (0: every pixel is zero).
\* ------------------------------------------------------------------------
MaxArrays == 6
MaxPixel == 2

HeapConfigs ==
    [checkpoint_file : {"ckpt.pkl"},
     nobj_checkpoint : {CheckpointEvery},
     noiseWrapper : {"None", "noise"},
     centroid_base_name : {"None"},
     PSF : {"psf"}]

\* a new interpreter: blankImageCache = {}, detectorImages = {}; no checkpoint yet
EmptyHeap ==
    [next |-> 1, arrays |-> EmptyDict, cache |-> EmptyDict, images |-> EmptyDict,
     saved |-> EmptyDict, blank |-> 0, restored |-> FALSE]

\* galsim.Image(...): a new array at the next address
Alloc(h, contents) ==
    [h EXCEPT !.next = @ + 1, !.arrays = @ @@ (h.next :> contents)]

\* image.copy() returning the image itself
CopyAliased(h, addr) == [heap |-> h, addr |-> addr]
\* image.copy()
CopyOf(h, addr) == [heap |-> Alloc(h, h.arrays[addr]), addr |-> h.next]

\* blankImage(detector): blank is the contents of the image it returns
heap_blankImage(h, detector) ==
    LET cached == IF detector.name \in DOMAIN h.cache THEN h
                  ELSE [Alloc(h, 0) EXCEPT !.cache = @ @@ (detector.name :> h.next)]
        copy == CopyOf(cached, cached.cache[detector.name])
    IN [heap |-> [copy.heap EXCEPT !.blank = copy.heap.arrays[copy.addr]], addr |-> copy.addr]

\* the arrays blankImage allocates for the detector
BlankImageArrays(h, detector) == IF detector.name \in DOMAIN h.cache THEN 1 ELSE 2

\* image += array, drawImage(image=image, add_to_image=True)
AddInPlace(h, addr, amount) == [h EXCEPT !.arrays[addr] = @ + amount]

SetImage(h, key, addr) ==
    [h EXCEPT !.images = [k \in DOMAIN @ \cup {key} |-> IF k = key THEN addr ELSE @[k]]]

heapOthers == <<detectors, PSF, noiseWrapper, rng, detectorImages, blankImageCache, checkpoint_file, nobj_checkpoint, drawn_objects, centroid_base_name, centroid_list, pc, gsObject, outputString, detectorList, realized_fluxes, di, bi, wc, ckptFile, tmpFile, ncalls, hist, stamp, twin, centroid_handles, centroidFiles, driver>>

InitCache ==
    /\ cfg \in HeapConfigs
    /\ Constructed(cfg, <<detA, detB>>)
    /\ NoCall
    /\ ckptFile = AbsentFile
    /\ tmpFile = AbsentFile
    /\ ncalls = 0
    /\ hist = [pre |-> NoSnapshot, commit |-> NoSnapshot, restored |-> <<>>,
               replaced |-> {}, error |-> "none"]
    /\ stamp = NoStamp
    /\ centroid_handles = EmptyDict
    /\ centroidFiles = EmptyDict
    /\ driver = NoDriver
    /\ heap = EmptyHeap
    /\ twin = NoTwin

\* _addNoiseAndBackground, name not in self.detectorImages, no noiseWrapper
heap_addNoiseAndBackground_blank(detector, bandpassName) ==
    /\ cfg.noiseWrapper = "None"
    /\ getFileName(detector, bandpassName) \notin DOMAIN heap.images
    /\ heap.next + BlankImageArrays(heap, detector) <= MaxArrays + 1
    /\ LET blank == heap_blankImage(heap, detector)
       IN heap' = SetImage(blank.heap, getFileName(detector, bandpassName), blank.addr)
    /\ UNCHANGED <<heapOthers, cfg>>

\* _addNoiseAndBackground, name not in self.detectorImages: the noiseWrapper
\* adds the background to the image it is given and returns it (inPlace), or
\* returns a new image
heap_addNoiseAndBackground_noise(detector, bandpassName, inPlace) ==
    /\ cfg.noiseWrapper # "None"
    /\ getFileName(detector, bandpassName) \notin DOMAIN heap.images
    /\ heap.next + BlankImageArrays(heap, detector) + 1 <= MaxArrays + 1
    /\ LET blank == heap_blankImage(heap, detector)
           noisy == IF inPlace
                    THEN [heap |-> AddInPlace(blank.heap, blank.addr, 1), addr |-> blank.addr]
                    ELSE [heap |-> Alloc(blank.heap, blank.heap.arrays[blank.addr] + 1),
                          addr |-> blank.heap.next]
       IN heap' = SetImage(noisy.heap, getFileName(detector, bandpassName), noisy.addr)
    /\ UNCHANGED <<heapOthers, cfg>>

\* obj.drawImage(image=self.detectorImages[name], add_to_image=True)
heap_drawObject_draw(name) ==
    /\ name \in DOMAIN heap.images
    /\ heap.arrays[heap.images[name]] < MaxPixel
    /\ heap' = AddInPlace(heap, heap.images[name], 1)
    /\ UNCHANGED <<heapOthers, cfg>>

\* write_checkpoint: images = {key: value.array}, pickled
heap_write_checkpoint ==
    /\ heap.images # EmptyDict
    /\ heap' = [heap EXCEPT !.saved = [key \in DOMAIN heap.images |-> heap.arrays[heap.images[key]]]]
    /\ UNCHANGED <<heapOthers, cfg>>

\* the loop of restore_checkpoint: self.detectorImages[key] = self.blankImage(detector)
\* and self.detectorImages[key] += image_state['images'][key]
RECURSIVE heap_RestoreImages(_, _)
heap_RestoreImages(h, keys) ==
    IF keys = {} THEN h
    ELSE LET key == CHOOSE k \in keys : TRUE
             blank == heap_blankImage(h, make_galsim_detector(Unmangle(key)))
         IN heap_RestoreImages(
                AddInPlace(SetImage(blank.heap, key, blank.addr), blank.addr, h.saved[key]),
                keys \ {key})

heap_restore_checkpoint ==
    /\ heap.saved # EmptyDict
    /\ heap.next + 2 * Cardinality(DOMAIN heap.saved) <= MaxArrays + 1
    /\ heap' = [heap_RestoreImages(heap, DOMAIN heap.saved) EXCEPT !.restored = TRUE]
    /\ UNCHANGED <<heapOthers, cfg>>

\* the process dies and a new interpreter is constructed: the checkpoint stays
heap_crash ==
    /\ heap.next > 1
    /\ heap' = [EmptyHeap EXCEPT !.saved = heap.saved]
    /\ UNCHANGED <<heapOthers, cfg>>

NextCache ==
    \/ \E detector \in {detA, detB} : \E b \in BandIndex : heap_addNoiseAndBackground_blank(detector, bandpassDict[b])
    \/ \E detector \in {detA, detB} : \E b \in BandIndex : \E inPlace \in BOOLEAN : heap_addNoiseAndBackground_noise(detector, bandpassDict[b], inPlace)
    \/ \E detector \in {detA, detB} : \E b \in BandIndex : heap_drawObject_draw(getFileName(detector, bandpassDict[b]))
    \/ heap_write_checkpoint
    \/ heap_restore_checkpoint
    \/ heap_crash

SpecCache == InitCache /\ [][NextCache]_vars

\* ------------------------------------------------------------------------
\* getGoodPhotImageSize, one pass of each loop at a time: the test of the
\* while statement and its body are separate steps.
\* ------------------------------------------------------------------------
\* profiles for which getGoodImageSize returns 0: a core of brightness sb
ZeroSizeObjects ==
    { [goodImageSize |-> 0, steps |-> <<[side |-> 36, sb |-> sb]>>] : sb \in 0..MaxSb }

PhotObjects == CenteredObjects \cup ZeroSizeObjects

\* 0 * factor and 0 / factor are 0
SzNormal(N) == IF N.b = 0 THEN Sz(0, 0) ELSE N

InitPhot ==
    /\ cfg = DispatchConfig
    /\ Constructed(cfg, <<detA, detB>>)
    /\ NoCall
    /\ ckptFile = AbsentFile
    /\ tmpFile = AbsentFile
    /\ ncalls = 0
    /\ hist = [pre |-> NoSnapshot, commit |-> NoSnapshot, restored |-> <<>>,
               replaced |-> {}, error |-> "none"]
    /\ stamp = NoStamp
    /\ centroid_handles = EmptyDict
    /\ centroidFiles = EmptyDict
    /\ driver = NoDriver
    /\ heap = NoHeap
    /\ twin = NoTwin

photOthers == <<driver, heap, centroid_handles, centroidFiles, interpVars, twin, memVars, callVars, wc, diskVars, cfg, ncalls, hist>>

\* N = obj.getGoodImageSize(pixel_scale)
phot_call(obj, keep_sb_level) ==
    /\ pc = "idle"
    /\ stamp' = [op |-> "getGoodPhotImageSize", obj |-> obj, keep_sb_level |-> keep_sb_level,
                 N |-> Sz(obj.goodImageSize, 0)]
    /\ pc' = "grow_test"
    /\ UNCHANGED photOthers

\* while N < Nmax:
phot_grow_test ==
    /\ pc = "grow_test"
    /\ pc' = IF SzLT(stamp.N, Nmax_phot) THEN "grow_body" ELSE "clamp"
    /\ UNCHANGED <<stamp, photOthers>>

\* if maxval < keep_sb_level: break; N *= factor
phot_grow_body ==
    /\ pc = "grow_body"
    /\ IF maxval(stamp.obj, stamp.N) < stamp.keep_sb_level
       THEN pc' = "clamp" /\ stamp' = stamp
       ELSE pc' = "grow_test" /\ stamp' = [stamp EXCEPT !.N = SzNormal(SzTimesFactor(@))]
    /\ UNCHANGED photOthers

\* N = min(N, Nmax)
phot_clamp ==
    /\ pc = "clamp"
    /\ stamp' = [stamp EXCEPT !.N = SzMin(@, Nmax_phot)]
    /\ pc' = "shrink_test"
    /\ UNCHANGED photOthers

\* while N >= 64 * factor:
phot_shrink_test ==
    /\ pc = "shrink_test"
    /\ pc' = IF SzLT(SzOverFactor(stamp.N), Nmin_phot) THEN "sized" ELSE "shrink_body"
    /\ UNCHANGED <<stamp, photOthers>>

\* if maxval > keep_sb_level: break; N /= factor
phot_shrink_body ==
    /\ pc = "shrink_body"
    /\ IF maxval(stamp.obj, SzOverFactor(stamp.N)) > stamp.keep_sb_level
       THEN pc' = "sized" /\ stamp' = stamp
       ELSE pc' = "shrink_test" /\ stamp' = [stamp EXCEPT !.N = SzNormal(ShrinkStep(@))]
    /\ UNCHANGED photOthers

\* return int(N)
phot_return ==
    /\ pc = "sized"
    /\ stamp' = NoStamp
    /\ pc' = "idle"
    /\ UNCHANGED photOthers

\* the function, once called, keeps running
PhotStep ==
    \/ phot_grow_test
    \/ phot_grow_body
    \/ phot_clamp
    \/ phot_shrink_test
    \/ phot_shrink_body
    \/ phot_return

NextPhot ==
    \/ /\ pc = "idle"
       /\ \E obj \in PhotObjects, keep_sb_level \in KeepLevels : phot_call(obj, keep_sb_level)
    \/ PhotStep

SpecPhot == InitPhot /\ [][NextPhot]_vars /\ WF_vars(PhotStep)

\* ========================================================================
\* Properties
\* ========================================================================
Range(seq) == {seq[i] : i \in DOMAIN seq}

\* C1: every checkpoint written by write_checkpoint (on the cadence or
\* forced), loaded by restore_checkpoint into a fresh interpreter, gives the
\* images, the drawn_objects and the centroid_list (in order) that the
\* writing interpreter held in memory when it wrote the checkpoint.
C1_CheckpointRoundTrip ==
    (pc = "restored" /\ hist.pre.fresh /\ checkpoint_file # "None" /\ ckptFile.exists)
    => /\ detectorImages = hist.commit.images
       /\ drawn_objects = hist.commit.drawn_objects
       /\ centroid_list = hist.commit.centroid_list

\* C2: after restore_checkpoint into a fresh interpreter, drawObject for a
\* source whose uniqueId is already in drawn_objects leaves every detector
\* image unchanged.
C2_RedrawIsNoOp ==
    (/\ pc = "return"
     /\ hist.restored # <<>>
     /\ gsObject.uniqueId \in hist.restored[1]
     /\ gsObject.uniqueId \in hist.pre.drawn_objects)
    => detectorImages = hist.pre.images

\* C3: the file at checkpoint_file is at every step absent or a complete,
\* synced record; it changes only by the rename, which installs the complete
\* new record, so that a crash before the rename leaves the previous
\* checkpoint (or none) as it was.
C3_AtomicCheckpoint ==
    /\ [](ckptFile.exists => ckptFile.written = "all" /\ ckptFile.synced)
    /\ [][ckptFile' # ckptFile =>
            /\ pc = "wc_rename"
            /\ ckptFile' = tmpFile
            /\ ckptFile'.data = ImageState(detectorImages, rng,
                                           CheckpointDrawnObjects(drawn_objects, wc.object_list),
                                           centroid_list)]_vars

\* a write is half done (a prefix of the new record is in the temporary
\* file) while the previous, different record is at checkpoint_file
C3_Witness ==
    /\ pc = "wc_dump_rest"
    /\ tmpFile.written = "part"
    /\ ckptFile.exists
    /\ ckptFile.data # tmpFile.data

\* C4: write_checkpoint changes nothing on disk when no checkpoint_file is
\* configured; with one configured it starts writing a record if and only if
\* force is true or len(drawn_objects) % nobj_checkpoint = 0.
C4_CadenceRule ==
    [][(pc = "wc" /\ ~Crash) =>
          /\ checkpoint_file = "None" => (ckptFile' = ckptFile /\ tmpFile' = tmpFile /\ pc' = wc.ret)
          /\ checkpoint_file # "None" =>
                ((pc' = "wc_dump" /\ tmpFile'.exists /\ tmpFile' # tmpFile)
                 <=> (wc.force \/ Cardinality(drawn_objects) % nobj_checkpoint = 0))
          /\ pc' # "wc_dump" => (ckptFile' = ckptFile /\ tmpFile' = tmpFile /\ pc' = wc.ret)]_vars

\* a record is being written because the cadence is met, without force
C4_Witness ==
    /\ pc = "wc_dump"
    /\ ~wc.force
    /\ drawn_objects # {}
    /\ Cardinality(drawn_objects) % nobj_checkpoint = 0

\* C5: a drawObject call whose realized flux is 0 in every band leaves the
\* existing images unchanged, opens no new target, appends no centroid entry
\* and writes no checkpoint; the uniqueId is in drawn_objects and the
\* dispatch string is returned.
C5_ZeroFluxShortCircuit ==
    (pc = "return" /\ AllZero(realized_fluxes))
    => /\ detectorImages = hist.pre.images
       /\ blankImageCache = hist.pre.cache
       /\ centroid_list = hist.pre.centroid_list
       /\ ckptFile = hist.pre.ckptFile
       /\ tmpFile = hist.pre.tmpFile
       /\ gsObject.uniqueId \in drawn_objects
       /\ (outputString = NoneStr) = (detectorList = <<>>)

\* a source of non-zero mean flux that lies on a detector realizes no photon
\* while images exist
C5_Witness ==
    /\ pc = "return"
    /\ AllZero(realized_fluxes)
    /\ detectorList # <<>>
    /\ \E b \in BandIndex : gsObject.flux[bandpassDict[b]] > 0
    /\ detectorImages # EmptyDict
    /\ checkpoint_file # "None"
    /\ noiseWrapper # "None"

\* C6: when findAllDetectors finds no detector, drawObject returns None
\* without error, the uniqueId is in drawn_objects, and detectorImages and
\* centroid_list are as before the call.
C6_OffFrame ==
    /\ (pc = "return" /\ detectorList = <<>>)
       => /\ outputString = NoneStr
          /\ gsObject.uniqueId \in drawn_objects
          /\ detectorImages = hist.pre.images
          /\ centroid_list = hist.pre.centroid_list
    /\ (pc \in {"markDrawn", "realize", "check"} /\ detectorList = <<>>)
       => outputString = NoneStr

\* a source off the focal plane with non-zero realized flux has been
\* processed while images exist
C6_Witness ==
    /\ pc = "return"
    /\ detectorList = <<>>
    /\ ~AllZero(realized_fluxes)
    /\ detectorImages # EmptyDict

\* C7: on one interpreter, drawn_objects after each operation (drawObject,
\* write_checkpoint, restore_checkpoint) is a superset of its value before.
C7_DrawnSetMonotone ==
    [][~Crash => drawn_objects \subseteq drawn_objects']_vars

\* C7 as amended: the steps of drawObject and write_checkpoint never remove
\* an id from drawn_objects; restore_checkpoint sets drawn_objects to the set
\* of the record it loads.
C7_DrawnSetGrowsExceptRestore ==
    [][~Crash =>
          /\ pc' # "restored" => drawn_objects \subseteq drawn_objects'
          /\ (pc' = "restored" /\ checkpoint_file # "None" /\ ckptFile.exists)
                => drawn_objects' = ckptFile.data.drawn_objects]_vars

\* restore_checkpoint has removed ids from drawn_objects
C7_Witness ==
    /\ pc = "restored"
    /\ ~(hist.pre.drawn_objects \subseteq drawn_objects)

\* C8: a detector is in the list of findAllDetectors if and only if the
\* source's box [x - s/2, x + s/2] x [y - s/2, y + s/2], s = size times
\* conservative_factor, overlaps the detector's pupil bounds strictly on both
\* axes; a zero-size box selects no detector.  (Coordinates are doubled.)
C8_Selected(obj, dd) ==
    LET s == obj.goodSize * conservative_factor
    IN /\ Min(2 * obj.xPupilArcsec + s, 2 * dd.xMaxArcsec)
             > Max(2 * obj.xPupilArcsec - s, 2 * dd.xMinArcsec)
       /\ Min(2 * obj.yPupilArcsec + s, 2 * dd.yMaxArcsec)
             > Max(2 * obj.yPupilArcsec - s, 2 * dd.yMinArcsec)

C8_OverlapCorrectness ==
    pc = "found"
    => /\ \A dd \in Range(detectors) :
             (dd \in Range(detectorList)) <=> C8_Selected(gsObject, dd)
       /\ gsObject.goodSize = 0 => detectorList = <<>>

\* the box touches the edge of one detector, which is not selected, and
\* overlaps another, which is
C8_Witness ==
    /\ pc = "found"
    /\ detectorList # <<>>
    /\ \E dd \in Range(detectors) :
          /\ dd \notin Range(detectorList)
          /\ 2 * gsObject.xPupilArcsec + gsObject.goodSize * conservative_factor
                = 2 * dd.xMinArcsec
          /\ 2 * gsObject.yPupilArcsec > 2 * dd.yMinArcsec
          /\ 2 * gsObject.yPupilArcsec < 2 * dd.yMaxArcsec

\* C9: the detector list and the joined string returned by findAllDetectors
\* are the same for every order of the interpreter's detector list.
C9_OrderInvariant ==
    pc = "found"
    => \A order \in DetectorOrders :
          LET other == findAllDetectors(order, gsObject, conservative_factor)
          IN other.outputList = detectorList /\ other.outputString = outputString

\* C9 as amended: the set of detectors returned is the same for every order
\* of the detector list (and so is the number of names joined); the list is
\* in the order of the interpreter's detector list.
C9_SetInvariant ==
    pc = "found"
    => /\ \A order \in DetectorOrders :
             LET other == findAllDetectors(order, gsObject, conservative_factor)
             IN /\ Range(other.outputList) = Range(detectorList)
                /\ Len(other.outputList) = Len(detectorList)
                /\ Len(other.outputString) = Len(outputString)
       /\ \A i, j \in DOMAIN detectorList :
             i < j => \E k, l \in DOMAIN detectors :
                         k < l /\ detectors[k] = detectorList[i] /\ detectors[l] = detectorList[j]

\* two detectors or more are found, and another order of the detector list
\* gives another list
C9_Witness ==
    /\ pc = "found"
    /\ Len(detectorList) >= 2
    /\ \E order \in DetectorOrders :
          findAllDetectors(order, gsObject, conservative_factor).outputList # detectorList

\* C10: the string of findAllDetectors is None if and only if the list is
\* empty; otherwise it is the names of the listed detectors, in list order,
\* joined by '//'.
RECURSIVE C10_Joined(_)
C10_Joined(list) ==
    IF Len(list) = 1 THEN list[1].name
    ELSE C10_Joined(SubSeq(list, 1, Len(list) - 1)) \o <<"/", "/">> \o list[Len(list)].name

C10_StringMatchesList ==
    pc = "found"
    => /\ (outputString = NoneStr) <=> (detectorList = <<>>)
       /\ detectorList # <<>> => outputString = C10_Joined(detectorList)

\* three detectors are found
C10_Witness ==
    /\ pc = "found"
    /\ Len(detectorList) = 3
    /\ outputString # NoneStr

\* C11: for flux < 10 the bounds returned by getStampBounds have 32 pixels
\* on each axis, for every profile kind and every image position.
C11_FaintStampSide32 ==
    (pc = "bounds" /\ stamp.flux < faint_flux)
    => xSide(stamp.bounds) = 32 /\ ySide(stamp.bounds) = 32

\* C12: for every source, flux and position the side of the bounds returned
\* by getStampBounds is at most max(Nmax, getGoodPhotImageSize(obj,
\* large_object_sb_level)).
C12_SideClamp ==
    pc = "bounds"
    => LET limit == Max(stamp.Nmax,
                        getGoodPhotImageSize(stamp.obj, stamp.large_object_sb_level))
       IN xSide(stamp.bounds) <= limit /\ ySide(stamp.bounds) <= limit

\* C12 as amended: the image_size chosen by getStampBounds is 32 for flux < 10,
\* GalSim's getGoodImageSize (not clamped) for a point source, and at most
\* max(Nmax, getGoodPhotImageSize(obj, large_object_sb_level)) for any other
\* profile kind; the bounds have between image_size and image_size + 2 pixels
\* on each axis.
C12_ImageSizeClamp ==
    pc = "bounds"
    => /\ stamp.flux < faint_flux => stamp.image_size = faint_image_size
       /\ (stamp.flux >= faint_flux /\ stamp.galSimType = "pointSource")
             => stamp.image_size = stamp.obj.goodImageSize
       /\ (stamp.flux >= faint_flux /\ stamp.galSimType # "pointSource")
             => stamp.image_size
                   <= Max(stamp.Nmax,
                          getGoodPhotImageSize(stamp.obj, stamp.large_object_sb_level))
       /\ xSide(stamp.bounds) \in stamp.image_size..(stamp.image_size + 2)
       /\ ySide(stamp.bounds) \in stamp.image_size..(stamp.image_size + 2)

\* an extended source whose size at keep_sb_level is above Nmax is given the
\* smaller size found at large_object_sb_level, itself above Nmax
C12_Witness ==
    /\ pc = "bounds"
    /\ stamp.galSimType # "pointSource"
    /\ stamp.flux > 10 * stamp.obj.goodImageSize * stamp.obj.goodImageSize
    /\ getGoodPhotImageSize(stamp.obj, stamp.keep_sb_level) > stamp.image_size
    /\ stamp.image_size > stamp.Nmax

\* C13: for a fixed profile, getGoodPhotImageSize is non-increasing in
\* keep_sb_level.
C13_SizeNonIncreasing ==
    pc = "sized"
    => \A k \in KeepLevels :
          /\ k <= stamp.keep_sb_level => getGoodPhotImageSize(stamp.obj, k) >= stamp.size
          /\ k >= stamp.keep_sb_level => getGoodPhotImageSize(stamp.obj, k) <= stamp.size

\* the first loop, at this level, ends with N >= 4096 (N is then cut to 4096)
C13_CeilingReached(obj, keep_sb_level) == ~SzLT(GrownSize(obj, keep_sb_level), Nmax_phot)

\* C13 as amended: for a fixed profile and levels k1 <= k2, size(k1) >=
\* size(k2) whenever the first loop at k1 ends below the ceiling of 4096.
C13_SizeNonIncreasingBelowCeiling ==
    pc = "sized"
    => \A k \in KeepLevels :
          /\ (k <= stamp.keep_sb_level /\ ~C13_CeilingReached(stamp.obj, k))
                => getGoodPhotImageSize(stamp.obj, k) >= stamp.size
          /\ (k >= stamp.keep_sb_level /\ ~C13_CeilingReached(stamp.obj, stamp.keep_sb_level))
                => getGoodPhotImageSize(stamp.obj, k) <= stamp.size

\* a lower level gives a strictly larger size, below the ceiling
C13_Witness ==
    /\ pc = "sized"
    /\ \E k \in KeepLevels :
          /\ k < stamp.keep_sb_level
          /\ ~C13_CeilingReached(stamp.obj, k)
          /\ getGoodPhotImageSize(stamp.obj, k) > stamp.size

\* C14: the background is added to a detector image exactly once: when
\* _addNoiseAndBackground creates its key.  Every image of an interpreter
\* with a noiseWrapper carries one background (none without a noiseWrapper),
\* and no step of drawObject, write_checkpoint or restore_checkpoint changes
\* the background of a key that exists, whether drawObject created it or
\* restore_checkpoint loaded it.
C14_BackgroundOnce ==
    /\ [](\A key \in DOMAIN detectorImages :
             detectorImages[key].bg = IF noiseWrapper # "None" THEN 1 ELSE 0)
    /\ [][~Crash =>
            \A key \in DOMAIN detectorImages :
               /\ key \in DOMAIN detectorImages'
               /\ detectorImages'[key].bg = detectorImages[key].bg]_vars

\* a source has been drawn into an image that restore_checkpoint had loaded
\* into a fresh interpreter, background included
C14_Witness ==
    /\ pc = "return"
    /\ noiseWrapper # "None"
    /\ hist.restored # <<>>
    /\ \E key \in DOMAIN hist.pre.images :
          /\ hist.pre.images[key].bg = 1
          /\ detectorImages[key] # hist.pre.images[key]

\* the key opened by the last step of _addNoiseAndBackground's loops
C15_LastOpened ==
    IF bi > 1 THEN getFileName(detectorList[di], bandpassDict[bi - 1])
    ELSE getFileName(detectorList[di - 1], bandpassDict[Len(bandpassDict)])

\* C15: when _addNoiseAndBackground creates an image and adds its background
\* it calls write_checkpoint with force, which (with a checkpoint_file)
\* writes a record whatever len(drawn_objects) is; control returns to the loop
\* only through the rename, and the record then holds every image, the new
\* one with its background and no source flux.  A key that exists leads to no
\* write_checkpoint call.
C15_ForcedCheckpoint ==
    [][~Crash =>
          /\ (pc = "anb" /\ DOMAIN detectorImages' # DOMAIN detectorImages /\ noiseWrapper # "None")
                => (pc' = "wc" /\ wc'.force /\ wc'.ret = "anb")
          /\ (pc = "anb" /\ DOMAIN detectorImages' = DOMAIN detectorImages)
                => pc' \in {"anb", "draw"}
          /\ (pc = "wc" /\ wc.force /\ checkpoint_file # "None") => pc' = "wc_dump"
          /\ (wc.ret = "anb" /\ pc' = "anb" /\ checkpoint_file # "None")
                => /\ pc = "wc_rename"
                   /\ DOMAIN ckptFile'.data.images = DOMAIN detectorImages
                   /\ ckptFile'.data.images[C15_LastOpened].bg = 1
                   /\ \A i \in SourceIds : ckptFile'.data.images[C15_LastOpened].cnt[i] = 0]_vars

\* the forced checkpoint of a new image is on disk, off the cadence, and the
\* loop goes on
C15_Witness ==
    /\ pc = "anb"
    /\ di = 1
    /\ bi = 2
    /\ ckptFile.exists
    /\ C15_LastOpened \in DOMAIN ckptFile.data.images
    /\ ckptFile.data.images = [key \in DOMAIN detectorImages |-> ArrayOf(detectorImages[key])]
    /\ Cardinality(drawn_objects) % nobj_checkpoint # 0

\* C16: after a successful restore_checkpoint, whatever the interpreter held
\* before, detectorImages has exactly the keys of the loaded record and the
\* pixels of each image are the record's array for its key.
C16_RestoreReconstructs ==
    (pc = "restored" /\ checkpoint_file # "None" /\ ckptFile.exists)
    => /\ DOMAIN detectorImages = DOMAIN ckptFile.data.images
       /\ \A key \in DOMAIN ckptFile.data.images :
             ArrayOf(detectorImages[key]) = ckptFile.data.images[key]

\* C17: over the life of one interpreter, across drawObject and
\* restore_checkpoint calls, no key of detectorImages has its image replaced
\* by a newly created one.
C17_BufferCreatedOnce == hist.replaced = {}

\* C17 as amended: no step of drawObject or write_checkpoint removes a key of
\* detectorImages or stores another image under it: the image keeps its
\* geometry and background and what was drawn into it; only
\* restore_checkpoint stores a newly created image under a key that exists
\* (for every key of the record it loads).
C17_DrawNeverReplaces ==
    [][(~Crash /\ ~(pc = "idle" /\ pc' = "restored")) =>
          /\ hist'.replaced = hist.replaced
          /\ \A key \in DOMAIN detectorImages :
                /\ key \in DOMAIN detectorImages'
                /\ detectorImages'[key].wcs = detectorImages[key].wcs
                /\ detectorImages'[key].nx = detectorImages[key].nx
                /\ detectorImages'[key].ny = detectorImages[key].ny
                /\ detectorImages'[key].bg = detectorImages[key].bg
                /\ \A i \in SourceIds :
                      detectorImages'[key].cnt[i] >= detectorImages[key].cnt[i]]_vars

\* a second source has been drawn into an image that holds the flux of a first
C17_Witness ==
    /\ pc = "return"
    /\ \E key \in DOMAIN hist.pre.images :
          /\ \E i \in SourceIds : hist.pre.images[key].cnt[i] > 0
          /\ detectorImages[key].cnt[gsObject.uniqueId] > hist.pre.images[key].cnt[gsObject.uniqueId]

C18_UnseededWalk(n) ==
    \E k \in 1..n :
       twin.sources[k].galSimType = "RandomWalk" /\ twin.sources[k].uniqueId = NoneId

C19_MissingPSF ==
    /\ (gsObject # NoObject /\ gsObject.galSimType = "pointSource" /\ PSF = "None")
          => /\ pc = "raised"
             /\ hist.error = "RuntimeError"
             /\ detectorImages = hist.pre.images
             /\ drawn_objects = hist.pre.drawn_objects
             /\ centroid_list = hist.pre.centroid_list
             /\ rng = hist.pre.rng
             /\ ckptFile = hist.pre.ckptFile
             /\ tmpFile = hist.pre.tmpFile
    /\ (gsObject # NoObject /\ gsObject.galSimType = "pointSource" /\ PSF # "None")
          => pc # "raised"
    /\ (gsObject # NoObject /\ gsObject.galSimType \in KnownTypes \ {"pointSource"})
          => pc # "raised"

\* the call for a point source has raised on an interpreter without PSF that
\* had drawn a sersic source before, with a checkpoint file configured
C19_Witness ==
    /\ pc = "raised"
    /\ gsObject # NoObject
    /\ gsObject.galSimType = "pointSource"
    /\ PSF = "None"
    /\ checkpoint_file # "None"
    /\ \E key \in DOMAIN detectorImages : detectorImages[key].cnt[1] > 0

\* C20: a drawObject call for a source whose galSimType is none of 'sersic',
\* 'pointSource', 'RandomWalk', 'FitsImage' raises in createCenteredObject
\* (inside findAllDetectors) and leaves drawn_objects, detectorImages and
\* centroid_list as they were.
C20_UnknownType ==
    (gsObject # NoObject
     /\ gsObject.galSimType \notin {"sersic", "pointSource", "RandomWalk", "FitsImage"})
    => /\ pc = "raised"
       /\ hist.error \in {"RuntimeError", "NameError"}
       /\ detectorImages = hist.pre.images
       /\ drawn_objects = hist.pre.drawn_objects
       /\ centroid_list = hist.pre.centroid_list

\* the call for a source of unknown kind has raised on an interpreter that
\* holds images and drawn objects
C20_Witness ==
    /\ pc = "raised"
    /\ gsObject # NoObject
    /\ gsObject.galSimType = "unknown"
    /\ detectorImages # EmptyDict
    /\ drawn_objects # {}

C22_StepOrder ==
    [][/\ (drawn_objects' # drawn_objects)
             => /\ pc = "markDrawn"
                /\ outputString = findAllDetectors(detectors, gsObject,
                                                   conservative_factor).outputString
                /\ detectorList = findAllDetectors(detectors, gsObject,
                                                   conservative_factor).outputList
                /\ rng = hist.pre.rng
                /\ detectorImages = hist.pre.images
                /\ blankImageCache = hist.pre.cache
       /\ (rng' # rng) => gsObject.uniqueId \in drawn_objects
       /\ (realized_fluxes' # realized_fluxes /\ pc' # "idle")
             => /\ pc = "realize"
                /\ gsObject.uniqueId \in drawn_objects
                /\ detectorImages = hist.pre.images
                /\ blankImageCache = hist.pre.cache
       /\ (detectorImages' # detectorImages \/ blankImageCache' # blankImageCache)
             => /\ gsObject.uniqueId \in drawn_objects
                /\ realized_fluxes # <<>>
                /\ rng >= hist.pre.rng + Len(bandpassDict)
       /\ (pc = "draw" /\ pc' = "draw")
             => \A d \in 1..Len(detectorList), b \in BandIndex :
                   getFileName(detectorList[d], bandpassDict[b]) \in DOMAIN detectorImages
       /\ (pc' = "wc" /\ wc'.ret = "return")
             => \/ pc = "wc"
                \/ pc = "draw" /\ bi > Len(bandpassDict)
      ]_vars

\* the closing write_checkpoint() of a sensor-model drawObject call for a
\* source not drawn before is under way, after fluxes were realized, targets
\* opened and the source drawn
C22_Witness ==
    /\ cfg.apply_sensor_model
    /\ pc = "wc"
    /\ wc.ret = "return"
    /\ gsObject.uniqueId \notin hist.pre.drawn_objects
    /\ gsObject.uniqueId \in drawn_objects
    /\ rng > hist.pre.rng + Len(bandpassDict)
    /\ DOMAIN detectorImages # DOMAIN hist.pre.images
    /\ \E key \in DOMAIN detectorImages : detectorImages[key].cnt[gsObject.uniqueId] > 0

\* C23: the bounds returned by getStampBounds cover the span of image_size
\* pixels around the position on both axes: xmin <= pos.x - N/2,
\* xmax >= pos.x + N/2, ymin <= pos.y - N/2, ymax >= pos.y + N/2 (written in
\* half pixels, for every position with the floor and ceiling of image_pos).
C23_StampCovers ==
    stamp.op = "getStampBounds"
    => /\ 2 * stamp.bounds.xmin <= 2 * stamp.image_pos.x.floor - stamp.image_size
       /\ 2 * stamp.bounds.xmax >= 2 * stamp.image_pos.x.ceil + stamp.image_size
       /\ 2 * stamp.bounds.ymin <= 2 * stamp.image_pos.y.floor - stamp.image_size
       /\ 2 * stamp.bounds.ymax >= 2 * stamp.image_pos.y.ceil + stamp.image_size

\* the size with which getGoodPhotImageSize enters its second loop
C24_Entering(obj, keep_sb_level) == SzMin(GrownSize(obj, keep_sb_level), Nmax_phot)

\* C24: getGoodPhotImageSize returns at most 4096, and at least 64 whenever
\* the size with which the second (shrinking) loop is entered is at least 64.
C24_SizeLimits ==
    (pc = "sized" /\ stamp.op = "getGoodPhotImageSize")
    => /\ stamp.size <= Nmax_phot
       /\ ~SzLT(C24_Entering(stamp.obj, stamp.keep_sb_level), Nmin_phot)
             => stamp.size >= Nmin_phot

\* the second loop has cut a size down and stopped because of its bound: the
\* square smaller by one more factor is still no brighter than keep_sb_level
C24_Witness ==
    /\ pc = "sized"
    /\ stamp.op = "getGoodPhotImageSize"
    /\ LET entering == C24_Entering(stamp.obj, stamp.keep_sb_level)
           N == ShrinkLoop(stamp.obj, stamp.keep_sb_level, entering)
       IN /\ N # entering
          /\ stamp.size = SzInt(N)
          /\ stamp.size >= Nmin_phot
          /\ maxval(stamp.obj, SzOverFactor(N)) <= stamp.keep_sb_level

\* the bounds b lie within the bounds c
C25_Within(b, c) ==
    b.xmin >= c.xmin /\ b.xmax <= c.xmax /\ b.ymin >= c.ymin /\ b.ymax <= c.ymax

\* the result of getStampBounds in the pass of the draw loop that is next
C25_StampBounds ==
    getStampBounds(gsObject.galSimType, StampProfile(gsObject), realized_fluxes[bi],
                   PositionD(pixelCoordsFromPupilCoords(gsObject, detectorList[di])),
                   cfg.keep_sb_level, 3 * cfg.keep_sb_level, Nmax_default, cfg.division)

\* C25: in every pass of the draw loop of the sensor-model variant the window
\* is the intersection of the getStampBounds result with the bounds of the
\* target image.  If it is defined it lies within the image, the source is
\* drawn into that image only and the centroid entry is appended when logging
\* is on; if it is not, no image, no centroid entry and no random number is
\* touched and nothing is raised.  Either way the loop goes on to the next
\* (band, detector) pair.
C25_WindowedDraw ==
    [][(cfg.apply_sensor_model /\ pc = "draw" /\ bi <= Len(bandpassDict))
       => LET image == detectorImages[drawKey]
              window == BoundsAnd(C25_StampBounds, ImageBounds(image))
          IN /\ stamp'.op = "drawObject"
             /\ stamp'.name = drawKey
             /\ stamp'.bounds = window
             /\ pc' = "draw"
             /\ hist'.error = "none"
             /\ IF di < Len(detectorList)
                THEN bi' = bi /\ di' = di + 1
                ELSE bi' = bi + 1 /\ di' = 1
             /\ \A key \in DOMAIN detectorImages \ {drawKey} :
                   detectorImages'[key] = detectorImages[key]
             /\ DOMAIN detectorImages' = DOMAIN detectorImages
             /\ IF window.xmin <= window.xmax /\ window.ymin <= window.ymax
                THEN /\ C25_Within(stamp'.bounds, ImageBounds(image))
                     /\ detectorImages'[drawKey].cnt[gsObject.uniqueId]
                           = image.cnt[gsObject.uniqueId] + realized_fluxes[bi]
                     /\ Len(centroid_list') = Len(centroid_list)
                           + (IF centroid_base_name # "None" THEN 1 ELSE 0)
                ELSE /\ detectorImages' = detectorImages
                     /\ centroid_list' = centroid_list
                     /\ rng' = rng
      ]_vars

\* a sensor-model call with centroid logging on has been through its draw
\* loop: one of its detectors got no centroid entry (its windows were not
\* defined) and another one, later in the list, got one per band
C25_Witness ==
    /\ cfg.apply_sensor_model
    /\ centroid_base_name # "None"
    /\ pc = "wc"
    /\ wc.ret = "return"
    /\ hist.error = "none"
    /\ stamp.op = "drawObject"
    /\ LET new == {k \in 1..Len(centroid_list) : k > Len(hist.pre.centroid_list)}
       IN \E d1, d2 \in 1..Len(detectorList) :
             /\ d1 < d2
             /\ \A k \in new : centroid_list[k][1] # detectorList[d1].fileName
             /\ Cardinality({k \in new : centroid_list[k][1] = detectorList[d2].fileName})
                   = Len(bandpassDict)

\* the pair (band b, detector d) of the call in progress is drawn: always by
\* the basic variant, and by the sensor-model variant when the stamp meets the image
C26_Drawn(b, d) ==
    \/ ~cfg.apply_sensor_model
    \/ LET bounds == BoundsAround(
                        PositionD(pixelCoordsFromPupilCoords(gsObject, detectorList[d])),
                        StampImageSize(gsObject.galSimType, StampProfile(gsObject),
                                       realized_fluxes[b], cfg.keep_sb_level,
                                       3 * cfg.keep_sb_level, Nmax_default),
                        cfg.division)
           image == NewImage(detectorList[d])
       IN /\ Max(bounds.xmin, 1) <= Min(bounds.xmax, image.nx)
          /\ Max(bounds.ymin, 1) <= Min(bounds.ymax, image.ny)

\* the entries of the pairs drawn, band by band and detector by detector
\* within a band, from the k-th pair on
RECURSIVE C26_Entries(_)
C26_Entries(k) ==
    IF k > Len(bandpassDict) * Len(detectorList) THEN <<>>
    ELSE LET b == ((k - 1) \div Len(detectorList)) + 1
             d == ((k - 1) % Len(detectorList)) + 1
         IN (IF C26_Drawn(b, d)
             THEN << <<detectorList[d].fileName, bandpassDict[b], gsObject.uniqueId,
                       gsObject.flux[bandpassDict[b]],
                       detectorList[d].xMinPix
                          + (gsObject.xPupilArcsec - detectorList[d].xMinArcsec),
                       detectorList[d].yMinPix
                          + (gsObject.yPupilArcsec - detectorList[d].yMinArcsec)>> >>
             ELSE <<>>) \o C26_Entries(k + 1)

\* C26: during a drawObject call of either variant the centroid list the
\* call began with is a prefix of centroid_list; with centroid_base_name set
\* the call has, when its draw loops are over, appended one entry for each
\* (band, detector) pair drawn, band by band and in the order of the detector
\* list within a band, and nothing else; with centroid_base_name None the
\* list is as the call found it.
C26_CentroidLog ==
    (gsObject # NoObject /\ hist.pre.taken)
    => /\ Len(centroid_list) >= Len(hist.pre.centroid_list)
       /\ SubSeq(centroid_list, 1, Len(hist.pre.centroid_list)) = hist.pre.centroid_list
       /\ centroid_base_name = "None" => centroid_list = hist.pre.centroid_list
       /\ (centroid_base_name # "None" /\ pc = "wc" /\ wc.ret = "return")
             => centroid_list = hist.pre.centroid_list \o C26_Entries(1)
       /\ (pc \in {"markDrawn", "realize", "check", "anb", "raised"}
           \/ (pc = "wc" /\ wc.ret = "anb"))
             => centroid_list = hist.pre.centroid_list
       /\ (pc = "return" /\ (AllZero(realized_fluxes) \/ Len(detectorList) = 0))
             => centroid_list = hist.pre.centroid_list
       /\ (centroid_base_name # "None" /\ pc = "return"
           /\ ~AllZero(realized_fluxes) /\ Len(detectorList) > 0)
             => centroid_list = hist.pre.centroid_list \o C26_Entries(1)

\* the draw loops of a call for a source on two detectors are over, on an
\* interpreter that logs centroids and held entries of an earlier source: one
\* entry per band and detector has been appended
C26_Witness ==
    /\ centroid_base_name # "None"
    /\ pc = "wc"
    /\ wc.ret = "return"
    /\ Len(detectorList) = 2
    /\ Len(hist.pre.centroid_list) > 0
    /\ Len(centroid_list) = Len(hist.pre.centroid_list) + 2 * Len(bandpassDict)
    /\ centroid_list[Len(centroid_list)][3] # centroid_list[1][3]

\* C27: once the two variants have been handed the same sources with the
\* same Poisson deviates, they have returned the same for every source, hold
\* the same drawn_objects, have opened the same keys (with the same
\* background), and have written the same checkpoints, forced or not, during
\* the same calls and with the same keys open; while the sensor-model session
\* is behind, what it has returned and written is a prefix.
C27_VariantsAgree ==
    /\ twin.b.n <= twin.a.n
    /\ twin.b.returned = SubSeq(twin.a.returned, 1, twin.b.n)
    /\ Len(twin.b.writes) <= Len(twin.a.writes)
    /\ twin.b.writes = SubSeq(twin.a.writes, 1, Len(twin.b.writes))
    /\ twin.b.n = twin.a.n
          => /\ twin.b.drawn_objects = twin.a.drawn_objects
             /\ DOMAIN twin.b.detectorImages = DOMAIN twin.a.detectorImages
             /\ \A key \in DOMAIN twin.a.detectorImages :
                   twin.b.detectorImages[key].bg = twin.a.detectorImages[key].bg
             /\ twin.b.blankImageCache = twin.a.blankImageCache
             /\ twin.b.writes = twin.a.writes

\* both sessions have been through the same two sources and wrote forced
\* checkpoints and one at the cadence; the images and the centroid lists of
\* the two are not the same
C27_Witness ==
    /\ twin.a.n = MaxPairSources
    /\ twin.b.n = twin.a.n
    /\ \E k \in 1..Len(twin.b.writes) : twin.b.writes[k].force
    /\ \E k \in 1..Len(twin.b.writes) : ~twin.b.writes[k].force
    /\ twin.a.detectorImages # twin.b.detectorImages
    /\ twin.a.centroid_list # twin.b.centroid_list
    /\ Len(twin.b.centroid_list) > 0

\* C28: a restore_checkpoint call made when checkpoint_file is None or no
\* file exists at checkpoint_file returns without raising and leaves
\* detectorImages, the generator, drawn_objects, centroid_list, the cache of
\* blank images and the files as they are.
C28_RestoreNoFile ==
    [][(/\ pc = "idle"
        /\ pc' \in {"restored", "raised"}
        /\ gsObject' = NoObject
        /\ (checkpoint_file = "None" \/ ~ckptFile.exists))
       => /\ pc' = "restored"
          /\ hist'.error = "none"
          /\ detectorImages' = detectorImages
          /\ rng' = rng
          /\ drawn_objects' = drawn_objects
          /\ centroid_list' = centroid_list
          /\ blankImageCache' = blankImageCache
          /\ ckptFile' = ckptFile
          /\ tmpFile' = tmpFile
      ]_vars

\* restore_checkpoint has returned on an interpreter that holds images and
\* drawn objects and whose checkpoint_file is set, with no file there
C28_Witness ==
    /\ pc = "restored"
    /\ checkpoint_file # "None"
    /\ ~ckptFile.exists
    /\ detectorImages # EmptyDict
    /\ drawn_objects # {}
    /\ rng > 0
    /\ detectorImages = hist.pre.images
    /\ drawn_objects = hist.pre.drawn_objects

\* the entries of centroid_list for the target of the given centroid name
RECURSIVE C29_LinesOf(_, _)
C29_LinesOf(name, k) ==
    IF k > Len(centroid_list) THEN <<>>
    ELSE (IF CentroidName(centroid_list[k][1], centroid_list[k][2]) = name
          THEN << <<centroid_list[k][3], centroid_list[k][4],
                    centroid_list[k][5], centroid_list[k][6]>> >>
          ELSE <<>>) \o C29_LinesOf(name, k + 1)

\* C29: when a write_centroid_files call is over, it has returned; there is
\* one centroid file for each (detector, band) that has an entry in
\* centroid_list and none for any other; each file is the header line
\* followed by the entries of its target in the order of centroid_list; and
\* every handle is closed.
C29_CentroidFiles ==
    (pc = "written" \/ (pc = "raised" /\ gsObject = NoObject))
    => /\ pc = "written"
       /\ DOMAIN centroidFiles
             = {CentroidName(centroid_list[k][1], centroid_list[k][2]) :
                   k \in 1..Len(centroid_list)}
       /\ \A name \in DOMAIN centroidFiles :
             centroidFiles[name] = <<CentroidHeader>> \o C29_LinesOf(name, 1)
       /\ \A name \in DOMAIN centroid_handles : centroid_handles[name] = "closed"

\* C30: in every checkpoint record committed to checkpoint_file, by the
\* cadence or by a forced write, every source with flux accumulated in the
\* record's images, and every source with an entry in the record's centroid
\* list, has its uniqueId in the record's drawn_objects.
C30_RecordConsistent ==
    (ckptFile.exists /\ "data" \in DOMAIN ckptFile)
    => /\ \A key \in DOMAIN ckptFile.data.images : \A id \in SourceIds :
              ckptFile.data.images[key].cnt[id] > 0 => id \in ckptFile.data.drawn_objects
       /\ \A k \in 1..Len(ckptFile.data.centroid_objects) :
              ckptFile.data.centroid_objects[k][3] \in ckptFile.data.drawn_objects

\* the loop has handed every source of the catalog to drawObject or passed over it
C31_RunComplete ==
    /\ pc = "idle"
    /\ driver.pos > 0
    /\ driver.phase = "run"
    /\ driver.pos > Len(driver.order)

\* the detectors a source is drawn on
C31_Targets(obj) == findAllDetectors(detectors, obj, conservative_factor).outputList

\* the latest call for the source went through the draw loops
C31_Drawn(obj) ==
    /\ driver.realized[obj.uniqueId] # <<>>
    /\ ~AllZero(driver.realized[obj.uniqueId])
    /\ C31_Targets(obj) # <<>>

\* the centroid entries of one call that goes through the draw loops
C31_Entries(obj) ==
    [i \in 1..(Len(bandpassDict) * Len(C31_Targets(obj))) |->
        centroid_tuple(C31_Targets(obj)[((i - 1) % Len(C31_Targets(obj))) + 1],
                       bandpassDict[((i - 1) \div Len(C31_Targets(obj))) + 1], obj)]

C31_EntryOf(entry, obj) == entry[3] = obj.uniqueId

\* the source's realized flux is in each of its (detector, band) images once,
\* in no other image, and its centroid entries are those of one call
C31_Once(obj) ==
    /\ \A b \in BandIndex : \A t \in 1..Len(C31_Targets(obj)) :
          C31_Drawn(obj) =>
             /\ getFileName(C31_Targets(obj)[t], bandpassDict[b]) \in DOMAIN detectorImages
             /\ detectorImages[getFileName(C31_Targets(obj)[t], bandpassDict[b])].cnt[obj.uniqueId]
                   = driver.realized[obj.uniqueId][b]
    /\ \A key \in DOMAIN detectorImages :
          (~C31_Drawn(obj) \/ \A b \in BandIndex : \A t \in 1..Len(C31_Targets(obj)) :
                                 key # getFileName(C31_Targets(obj)[t], bandpassDict[b]))
          => detectorImages[key].cnt[obj.uniqueId] = 0
    /\ centroid_base_name # "None" =>
          SelectSeq(centroid_list, LAMBDA entry : C31_EntryOf(entry, obj))
             = IF C31_Drawn(obj) THEN C31_Entries(obj) ELSE <<>>

\* C31: when the loop over the catalog is over, whatever the point at which
\* the process died and the run was started again from the last committed
\* checkpoint, every source has contributed to each of its (detector, band)
\* images exactly once and has exactly the centroid entries of one call.
C31_CrashResume ==
    C31_RunComplete => \A k \in 1..Len(driver.order) : C31_Once(driver.order[k])

\* C32: with a checkpoint file configured, whenever a drawObject call is about
\* to return with len(drawn_objects) a multiple of nobj_checkpoint, the file
\* at checkpoint_file holds a record of the interpreter's current state,
\* written by that call; this includes the calls that end at the all-zero
\* test or at the empty detector list.
C32_CadenceAtReturn ==
    (pc = "return" /\ checkpoint_file # "None" /\ Cardinality(drawn_objects) % nobj_checkpoint = 0)
    => /\ ckptFile.exists
       /\ ckptFile.data = ImageState(detectorImages, rng, drawn_objects, centroid_list)
       /\ hist.commit = MemorySnapshot

\* C33: after any sequence of target openings, background injections, draws
\* and restores, every array held in blankImageCache is all-zero, the image
\* blankImage returned last was zero-filled when it was returned, and no two
\* detector images, and no detector image and cached blank image, share an array.
C33_CacheNeverAliased ==
    /\ \A name \in DOMAIN heap.cache : heap.arrays[heap.cache[name]] = 0
    /\ heap.blank = 0
    /\ \A k1, k2 \in DOMAIN heap.images : k1 # k2 => heap.images[k1] # heap.images[k2]
    /\ \A key \in DOMAIN heap.images : \A name \in DOMAIN heap.cache :
          heap.images[key] # heap.cache[name]

\* both images of one detector have been restored from a checkpoint on top of
\* the cached blank image and drawn into
C33_Witness ==
    /\ heap.restored
    /\ detA.name \in DOMAIN heap.cache
    /\ \A b \in BandIndex :
          /\ getFileName(detA, bandpassDict[b]) \in DOMAIN heap.images
          /\ getFileName(detA, bandpassDict[b]) \in DOMAIN heap.saved
          /\ heap.arrays[heap.images[getFileName(detA, bandpassDict[b])]]
                > heap.saved[getFileName(detA, bandpassDict[b])]
          /\ heap.saved[getFileName(detA, bandpassDict[b])] > 0

\* C34: every call of getGoodPhotImageSize returns, whatever the starting
\* size getGoodImageSize gives (0 included), the profile and keep_sb_level:
\* the first loop ends after a bounded number of multiplications by 1.1 and
\* the second by reaching the floor of 64 or a sample above the level.
C34_Terminates == (pc = "grow_test") ~> (pc = "sized")

====
